---- MODULE Spec2Model ----
(***************************************************************************)
(* HealthHub authentication and authorization core.                        *)
(*                                                                         *)
(*   internal/auth/jwt.go         TokenManager (GenerateToken,             *)
(*                                ValidateToken, RefreshToken), Claims     *)
(*   internal/auth/middleware.go  AuthMiddleware, RequireRole,             *)
(*                                RequirePermission, checkPermission       *)
(*   internal/auth/rbac.go        RBACService (registry operations)        *)
(*   internal/handlers/auth.go    AuthHandler (Login, RefreshToken)        *)
(*   cmd/server/main.go           route table and middleware chain         *)
(*                                                                         *)
(* Time is counted in ticks; TicksPerSecond ticks make one second, so the  *)
(* truncation of NumericDate values to whole seconds is visible.           *)
(***************************************************************************)
EXTENDS Integers, Sequences, FiniteSets, TLC

VARIABLES
  clock,      \* reference time, in ticks
  held,       \* <<>> or <<r>>: the result of the latest token issuance
  call,       \* <<>> or <<c>>: the latest TokenManager call and its result
  prevErr,    \* the error of the failed validation before the latest one
  users,      \* table users: id -> row
  roles,      \* table roles: set of rows
  permissions,      \* table permissions: set of rows
  userRoles,        \* table user_roles: set of rows
  rolePermissions,  \* table role_permissions: set of rows
  req,        \* <<>> or <<r>>: the request being served
  memo,       \* <<>> or <<m>>: first guard decision on the held token
  procs       \* caller -> the registry call it is in, statement by statement

registry == <<users, roles, permissions, userRoles, rolePermissions>>

vars == <<clock, held, call, prevErr, users, roles, permissions, userRoles,
          rolePermissions, req, memo, procs>>

\* the callers of the registry: two processes that share the database
Callers == {"p1", "p2"}

\* rows a transaction has deleted and not yet committed, per table
NoRows ==
  [userRoles |-> {}, rolePermissions |-> {}, roles |-> {}, permissions |-> {}]

\* a caller that is in no call
IdleProc ==
  [op |-> "", pc |-> "idle", userID |-> "", roleID |-> <<>>,
   permissionID |-> <<>>, grantedBy |-> "", name |-> "",
   permissionIDs |-> {}, found |-> {}, k |-> 0, todo |-> {}, cur |-> "",
   err |-> "", pending |-> NoRows, peers |-> {},
   calls |-> 0, crashed |-> FALSE, onSeeded |-> FALSE,
   permName |-> <<>>, resource |-> "", action |-> ""]

----------------------------------------------------------------------------
(* Bounds *)

TicksPerSecond == 2
ValiditySeconds == 1          \* the 24h validity window, scaled down
MaxTime == 4                  \* last tick of the reference clock

----------------------------------------------------------------------------
(* Time *)

\* Two process instances share the signing key; the wall clock of "i2" runs
\* one second ahead of the wall clock of "i1".
Instances == {"i1", "i2"}

ClockSkew(i) == IF i = "i2" THEN TicksPerSecond ELSE 0

\* time.Now() as read by instance i
Now(i) == clock + ClockSkew(i)

\* 24 * time.Hour
ValidityWindow == ValiditySeconds * TicksPerSecond

\* jwt.NewNumericDate: t.Truncate(TimePrecision), TimePrecision = time.Second
NewNumericDate(t) == (t \div TicksPerSecond) * TicksPerSecond

----------------------------------------------------------------------------
(* Token codec: internal/auth/jwt.go *)

\* identities (id and email) for which tokens are requested
Identities == { [id |-> "u1", email |-> "a@x"], [id |-> "u2", email |-> "b@x"] }

\* role lists handed to GenerateToken
RoleLists ==
  { <<>>, <<"practitioner">>, <<"practitioner", "admin">>,
    <<"nurse", "lab-tech">> }

ServerKey == "server-secret"     \* cfg.JWTSecret
OtherKey == "other-secret"       \* any key that is not cfg.JWTSecret
Issuer == "HealthHub API"

\* NewTokenManager(secretKey, issuer)
NewTokenManager(secretKey, issuer) == [secretKey |-> secretKey, issuer |-> issuer]

TM == NewTokenManager(ServerKey, Issuer)

\* signing methods registered with the jwt library, and the HMAC family
RegisteredAlgs == {"HS256", "HS384", "HS512", "RS256", "none"}
HMACAlgs == {"HS256", "HS384", "HS512"}

\* HMAC of the signing input (header "." claims) under key; flip marks a
\* signature of which one bit was inverted, b64 whether it still decodes.
Sign(alg, claims, key) ==
  [key |-> key, alg |-> alg, body |-> claims, flip |-> FALSE, b64 |-> TRUE]

\* token.SignedString: the compact three-segment form
SignedString(alg, claims, key) ==
  [segs |-> 3, alg |-> alg, claims |-> claims, sig |-> Sign(alg, claims, key)]

\* TokenManager.GenerateToken, with now the value of time.Now()
GenerateToken(tm, userID, email, roleNames, now) ==
  LET expirationTime == now + ValidityWindow
      claims == [user_id |-> userID, email |-> email, roles |-> roleNames,
                 exp |-> NewNumericDate(expirationTime),
                 iat |-> NewNumericDate(now),
                 nbf |-> NewNumericDate(now),
                 iss |-> tm.issuer, sub |-> userID]
  IN [token |-> SignedString("HS256", claims, tm.secretKey),
      expiresAt |-> expirationTime]

NoClaims ==
  [user_id |-> "", email |-> "", roles |-> <<>>, exp |-> 0, iat |-> 0,
   nbf |-> 0, iss |-> "", sub |-> ""]

Fail(errs) == [ok |-> FALSE, err |-> errs, claims |-> NoClaims]

\* ClaimsErrors with the expiry instant itself still accepted
ClaimsErrorsLate(claims, now) ==
  (IF now <= claims.exp THEN {} ELSE {"ErrTokenExpired"})
    \cup (IF now < claims.nbf THEN {"ErrTokenNotValidYet"} ELSE {})

\* the registered-claims validator of jwt.ParseWithClaims
ClaimsErrors(claims, now) ==
  (IF now < claims.exp THEN {} ELSE {"ErrTokenExpired"})
    \cup (IF now < claims.nbf THEN {"ErrTokenNotValidYet"} ELSE {})

\* Keyfunc of ValidateToken: only HMAC methods get the key
KeyfuncAccepts(alg) == alg \in HMACAlgs

\* Verify that compares the signed content but not the key
VerifyAnyKey(alg, claims, sig, key) ==
  sig = Sign(alg, claims, sig.key)

\* SigningMethodHMAC.Verify
Verify(alg, claims, sig, key) == sig = Sign(alg, claims, key)

\* TokenManager.ValidateToken, with now the value of time.Now()
ValidateToken(tm, tokenString, now) ==
  IF tokenString.segs # 3 THEN Fail({"ErrTokenMalformed"})
  ELSE IF tokenString.alg \notin RegisteredAlgs
    THEN Fail({"ErrTokenUnverifiable"})
  ELSE IF ~KeyfuncAccepts(tokenString.alg)
    THEN Fail({"ErrTokenUnverifiable", "ErrSignatureInvalid"})
  ELSE IF ~tokenString.sig.b64 THEN Fail({"ErrTokenMalformed"})
  ELSE IF ~Verify(tokenString.alg, tokenString.claims, tokenString.sig,
                  tm.secretKey)
    THEN Fail({"ErrTokenSignatureInvalid", "ErrSignatureInvalid"})
  ELSE IF ClaimsErrors(tokenString.claims, now) # {}
    THEN Fail({"ErrTokenInvalidClaims"}
                \cup ClaimsErrors(tokenString.claims, now))
  ELSE [ok |-> TRUE, err |-> {}, claims |-> tokenString.claims]

\* a string that is not a three-segment token; also stands for ""
Garbage == [segs |-> 2, alg |-> "HS256", claims |-> NoClaims,
            sig |-> Sign("HS256", NoClaims, OtherKey)]

\* RefreshToken that re-issues with an empty role list
RefreshTokenDropsRoles(tm, tokenString, now) ==
  LET v == ValidateToken(tm, tokenString, now)
      g == GenerateToken(tm, v.claims.user_id, v.claims.email, <<>>, now)
  IN IF ~v.ok
       THEN [ok |-> FALSE, err |-> v.err, token |-> Garbage, expiresAt |-> 0]
       ELSE [ok |-> TRUE, err |-> {}, token |-> g.token,
             expiresAt |-> g.expiresAt]

\* TokenManager.RefreshToken, with now the value of time.Now()
RefreshToken(tm, tokenString, now) ==
  LET v == ValidateToken(tm, tokenString, now)
      g == GenerateToken(tm, v.claims.user_id, v.claims.email,
                         v.claims.roles, now)
  IN IF ~v.ok
       THEN [ok |-> FALSE, err |-> v.err, token |-> Garbage, expiresAt |-> 0]
       ELSE [ok |-> TRUE, err |-> {}, token |-> g.token,
             expiresAt |-> g.expiresAt]

----------------------------------------------------------------------------
(* Token strings a caller can present *)

\* what a party without the server key can make out of a token t it saw
Tampered(t) ==
  { [t EXCEPT !.sig.flip = TRUE],
    [t EXCEPT !.sig.b64 = FALSE],
    [t EXCEPT !.claims.roles = <<"admin">>, !.claims.exp = @ + ValidityWindow],
    [t EXCEPT !.sig = Sign(t.alg, t.claims, OtherKey)],
    [t EXCEPT !.alg = "none", !.sig = Sign("none", t.claims, "")],
    [t EXCEPT !.alg = "RS256", !.sig = Sign("RS256", t.claims, OtherKey)],
    [t EXCEPT !.alg = "XX", !.sig = Sign("XX", t.claims, OtherKey)],
    Garbage }

\* the token strings that can reach the server
Presentable ==
  IF held = <<>> THEN {Garbage}
  ELSE {held[1].token} \cup Tampered(held[1].token)

----------------------------------------------------------------------------
(* Codec specification: calls of the TokenManager methods *)

InitCodec ==
  /\ clock = 0
  /\ held = <<>>
  /\ call = <<>>
  /\ prevErr = {}
  /\ users = <<>> /\ roles = {} /\ permissions = {}
  /\ userRoles = {} /\ rolePermissions = {}
  /\ req = <<>> /\ memo = <<>>
  /\ procs = [p \in Callers |-> IdleProc]

Tick ==
  /\ clock < MaxTime
  /\ clock' = clock + 1
  /\ UNCHANGED <<procs, held, call, prevErr, registry, req, memo>>

CallGenerateToken(i, userID, email, roleNames) ==
  LET r == GenerateToken(TM, userID, email, roleNames, Now(i))
  IN /\ held' = << [token |-> r.token, expiresAt |-> r.expiresAt,
                    userID |-> userID, email |-> email,
                    roles |-> roleNames, now |-> Now(i)] >>
     /\ call' = << [op |-> "GenerateToken", token |-> r.token, now |-> Now(i),
                    res |-> [ok |-> TRUE, err |-> {},
                             claims |-> r.token.claims]] >>
     /\ memo' = <<>>
     /\ UNCHANGED <<clock, procs, prevErr, registry, req>>

CallValidateToken(i, tokenString) ==
  /\ call' = << [op |-> "ValidateToken", token |-> tokenString, now |-> Now(i),
                 res |-> ValidateToken(TM, tokenString, Now(i))] >>
  /\ prevErr' = IF call # <<>> /\ call[1].op = "ValidateToken"
                THEN call[1].res.err ELSE prevErr
  /\ UNCHANGED <<clock, procs, held, registry, req, memo>>

CallRefreshToken(i, tokenString) ==
  LET r == RefreshToken(TM, tokenString, Now(i))
  IN /\ call' = << [op |-> "RefreshToken", token |-> tokenString,
                    now |-> Now(i),
                    res |-> [ok |-> r.ok, err |-> r.err,
                             claims |-> r.token.claims],
                    newToken |-> r.token, expiresAt |-> r.expiresAt,
                    heldBefore |-> held] >>
     /\ held' = IF r.ok
                THEN << [token |-> r.token, expiresAt |-> r.expiresAt,
                         userID |-> r.token.claims.user_id,
                         email |-> r.token.claims.email,
                         roles |-> r.token.claims.roles, now |-> Now(i)] >>
                ELSE held
     /\ memo' = IF r.ok THEN <<>> ELSE memo
     /\ UNCHANGED <<clock, procs, prevErr, registry, req>>

NextCodec ==
  \/ Tick
  \/ \E i \in Instances, u \in Identities, rs \in RoleLists :
       CallGenerateToken(i, u.id, u.email, rs)
  \/ \E i \in Instances, t \in Presentable : CallValidateToken(i, t)
  \/ \E i \in Instances, t \in Presentable : CallRefreshToken(i, t)

SpecCodec == InitCodec /\ [][NextCodec]_vars

----------------------------------------------------------------------------
(* Properties of the token codec *)

Validated == call # <<>> /\ call[1].op = "ValidateToken"

\* the latest call validated the token of the latest issuance, unaltered
ValidatedIssued == Validated /\ held # <<>> /\ call[1].token = held[1].token

\* the presented token carries an HMAC signature made with the server key
\* over exactly its own header and claims
ServerSigned(t) ==
  /\ t.segs = 3
  /\ t.alg \in HMACAlgs
  /\ t.sig = [key |-> ServerKey, alg |-> t.alg, body |-> t.claims,
              flip |-> FALSE, b64 |-> TRUE]

\* C1: a token issued by GenerateToken at time now is accepted by
\* ValidateToken at every time now' with now <= now' < expiry, where expiry
\* is the expiry GenerateToken returned (now + 24h), and the claims returned
\* carry the identity id, email and roles passed to GenerateToken.
C1_RoundTripUntilExpiry ==
  (ValidatedIssued /\ held[1].now <= call[1].now
                   /\ call[1].now < held[1].expiresAt)
    => /\ call[1].res.ok
       /\ call[1].res.claims.user_id = held[1].userID
       /\ call[1].res.claims.email = held[1].email
       /\ call[1].res.claims.roles = held[1].roles

\* C2: ValidateToken returns claims only for a token whose signature
\* verifies under the server key with an HMAC method; every other token
\* (altered signature, other key, non-HMAC header) gets an error and no
\* claims.
C2_NoClaimsWithoutServerSignature ==
  (Validated /\ ~ServerSigned(call[1].token))
    => /\ ~call[1].res.ok
       /\ call[1].res.err # {}
       /\ call[1].res.claims = NoClaims

C2_Witness ==
  /\ Validated /\ held # <<>>
  /\ call[1].token = [held[1].token EXCEPT !.alg = "none",
                         !.sig = Sign("none", held[1].token.claims, "")]
  /\ "ErrTokenSignatureInvalid" \in prevErr
  /\ ~call[1].res.ok

\* C3: a correctly signed token is rejected with Expired when validated at
\* or after its embedded expiry and with NotYetValid when validated before
\* its embedded not-before instant; no claims are returned in either case.
C3_ExpiredAndNotYetValid ==
  (Validated /\ ServerSigned(call[1].token))
    => /\ (call[1].now >= call[1].token.claims.exp)
            => /\ ~call[1].res.ok
               /\ "ErrTokenExpired" \in call[1].res.err
               /\ call[1].res.claims = NoClaims
       /\ (call[1].now < call[1].token.claims.nbf)
            => /\ ~call[1].res.ok
               /\ "ErrTokenNotValidYet" \in call[1].res.err
               /\ call[1].res.claims = NoClaims

C3_Witness ==
  /\ ValidatedIssued
  /\ call[1].now >= call[1].token.claims.exp
  /\ "ErrTokenExpired" \in call[1].res.err
  /\ "ErrTokenNotValidYet" \in prevErr


Refreshed == call # <<>> /\ call[1].op = "RefreshToken"

\* the presented token passes every check of the codec at time now: it is
\* signed by the server and now lies in [nbf, exp)
ValidAt(t, now) ==
  ServerSigned(t) /\ t.claims.nbf <= now /\ now < t.claims.exp

\* C5: RefreshToken on a valid token returns a new token with the identity
\* id, email and roles embedded in the presented token and an expiry 24h
\* after the refresh time; on a token that fails validation it returns the
\* validation error and issues no token.
C5_RefreshKeepsSnapshot ==
  Refreshed =>
    IF ValidAt(call[1].token, call[1].now)
      THEN /\ call[1].res.ok
           /\ ServerSigned(call[1].newToken)
           /\ call[1].newToken.claims.user_id = call[1].token.claims.user_id
           /\ call[1].newToken.claims.email = call[1].token.claims.email
           /\ call[1].newToken.claims.roles = call[1].token.claims.roles
           /\ call[1].newToken.claims.sub = call[1].token.claims.user_id
           /\ call[1].expiresAt = call[1].now + ValidityWindow
           /\ held # <<>> /\ held[1].token = call[1].newToken
      ELSE /\ ~call[1].res.ok
           /\ call[1].res.err # {}
           /\ call[1].res.err
                = ValidateToken(TM, call[1].token, call[1].now).err
           /\ call[1].newToken = Garbage
           /\ held = call[1].heldBefore

\* a refresh, later than the issuance, of a token that carries roles
C5_Witness ==
  /\ Refreshed
  /\ call[1].res.ok
  /\ call[1].token.claims.roles = <<"practitioner", "admin">>
  /\ call[1].heldBefore # <<>>
  /\ call[1].token = call[1].heldBefore[1].token
  /\ call[1].now > call[1].heldBefore[1].now
  /\ call[1].expiresAt > call[1].heldBefore[1].expiresAt

----------------------------------------------------------------------------
(* Permission registry: internal/models/user.go, internal/auth/rbac.go *)

PermissionID(resource, action) == <<"permission", resource, action>>

\* a row of table permissions; the name stands for resource ":" action
PermissionRow(resource, action) ==
  [id |-> PermissionID(resource, action), name |-> <<resource, action>>,
   resource |-> resource, action |-> action]

RoleID(name) == <<"role", name>>

\* a row of table roles
RoleRow(name) == [id |-> RoleID(name), name |-> name]

CRUD == {"create", "read", "update", "delete"}

\* defaultPermissions of InitializeDefaultRoles
defaultPermissions ==
  { PermissionRow(r, a) : r \in {"patients", "observations", "users"},
                          a \in CRUD }

DefaultRoleNames == {"admin", "practitioner", "nurse", "lab-tech"}

\* a map rolePermissions that gives lab-tech the mapping of nurse
DefaultRolePermissionsLabTechAsNurse(roleName) ==
  CASE roleName = "admin" ->
         {"patients", "observations", "users"} \X CRUD
    [] roleName = "practitioner" ->
         {"patients", "observations"} \X {"create", "read", "update"}
    [] roleName \in {"nurse", "lab-tech"} ->
         {<<"patients", "read">>, <<"observations", "read">>}
    [] OTHER -> {}

\* the map rolePermissions of InitializeDefaultRoles
DefaultRolePermissions(roleName) ==
  CASE roleName = "admin" ->
         {"patients", "observations", "users"} \X CRUD
    [] roleName = "practitioner" ->
         {"patients", "observations"} \X {"create", "read", "update"}
    [] roleName = "nurse" ->
         {<<"patients", "read">>, <<"observations", "read">>}
    [] roleName = "lab-tech" ->
         {<<"patients", "read">>, <<"observations", "create">>,
          <<"observations", "read">>, <<"observations", "update">>}
    [] OTHER -> {}

\* bcrypt hash of a password (User.HashPassword)
HashPassword(password) == <<"bcrypt", password>>

\* User.CheckPassword
CheckPassword(user, password) == user.password = HashPassword(password)

\* rows of table users: an active and an inactive identity
InitUsers ==
  ("u1" :> [id |-> "u1", email |-> "a@x", password |-> HashPassword("pw1"),
            active |-> TRUE, lastLogin |-> -1])
  @@ ("u2" :> [id |-> "u2", email |-> "b@x",
               password |-> HashPassword("pw2"), active |-> FALSE,
               lastLogin |-> -1])

\* Preload("Roles"): the role rows joined to the user through user_roles
PreloadRoles(userID) ==
  { r \in roles : \E ur \in userRoles :
                    ur.user_id = userID /\ ur.role_id = r.id }

\* the sequences that enumerate the set S once, in any order
Orderings(S) ==
  { q \in [1..Cardinality(S) -> S] :
      \A i, j \in 1..Cardinality(S) : i # j => q[i] # q[j] }

\* User.GetRoleNames of a user loaded without Preload("Roles")
GetRoleNamesNotLoaded(userID) == { <<>> }

\* User.GetRoleNames of a preloaded user; the row order of the join is
\* not fixed by the query
GetRoleNames(userID) == Orderings({ r.name : r \in PreloadRoles(userID) })

\* RBACService.AssignRoleToUser: the table user_roles after the call
AssignRoleToUser(userID, roleID, grantedBy) ==
  IF userID \notin DOMAIN users THEN userRoles
  ELSE IF ~\E r \in roles : r.id = roleID THEN userRoles
  ELSE IF \E ur \in userRoles : ur.user_id = userID /\ ur.role_id = roleID
    THEN userRoles
  ELSE userRoles \cup
         {[user_id |-> userID, role_id |-> roleID, granted_by |-> grantedBy]}

\* a Delete that matches on the user only
RemoveEveryRoleFromUser(userID, roleID) ==
  { ur \in userRoles : ur.user_id # userID }

\* RBACService.RemoveRoleFromUser: the table user_roles after the call
RemoveRoleFromUser(userID, roleID) ==
  { ur \in userRoles : ~(ur.user_id = userID /\ ur.role_id = roleID) }

AssignRole(userID, roleID, grantedBy) ==
  /\ userRoles' = AssignRoleToUser(userID, roleID, grantedBy)
  /\ UNCHANGED <<clock, procs, held, call, prevErr, users, roles, permissions,
                 rolePermissions, req, memo>>

UnassignRole(userID, roleID) ==
  /\ userRoles' = RemoveRoleFromUser(userID, roleID)
  /\ UNCHANGED <<clock, procs, held, call, prevErr, users, roles, permissions,
                 rolePermissions, req, memo>>

\* RBACService.DeleteRole: one committed transaction
DeleteRole(roleID) ==
  /\ userRoles' = { ur \in userRoles : ur.role_id # roleID }
  /\ rolePermissions' = { rp \in rolePermissions : rp.role_id # roleID }
  /\ roles' = { r \in roles : r.id # roleID }
  /\ UNCHANGED <<clock, procs, held, call, prevErr, users, permissions, req, memo>>

\* RBACService.DeletePermission: one committed transaction
DeletePermission(permissionID) ==
  /\ rolePermissions' =
       { rp \in rolePermissions : rp.permission_id # permissionID }
  /\ permissions' = { q \in permissions : q.id # permissionID }
  /\ UNCHANGED <<clock, procs, held, call, prevErr, users, roles, userRoles, req,
                 memo>>

\* RBACService.GetUserPermissions
GetUserPermissions(userID) ==
  { q \in permissions :
      \E r \in PreloadRoles(userID), rp \in rolePermissions :
        rp.role_id = r.id /\ rp.permission_id = q.id }

\* RBACService.HasPermission
HasPermission(userID, resource, action) ==
  \E q \in GetUserPermissions(userID) :
    q.resource = resource /\ q.action = action

----------------------------------------------------------------------------
(* Claims helpers: internal/auth/jwt.go *)

\* Claims.HasRole
HasRole(c, role) == \E i \in 1..Len(c.roles) : c.roles[i] = role

\* HasAnyRole that decides on the roles the registry holds now
HasAnyRoleLive(c, allowed) ==
  \E j \in 1..Len(allowed) :
    allowed[j] \in { r.name : r \in PreloadRoles(c.user_id) }

\* HasAnyRole that looks at the first allowed role only
HasAnyRoleFirst(c, allowed) == Len(allowed) > 0 /\ HasRole(c, allowed[1])

\* Claims.HasAnyRole
HasAnyRole(c, allowed) == \E j \in 1..Len(allowed) : HasRole(c, allowed[j])

----------------------------------------------------------------------------
(* Routes: cmd/server/main.go *)

\* an entry of a handler chain
H(name) == [h |-> name, allowed |-> <<>>, resource |-> "", action |-> ""]

\* auth.RequireRole(allowedRoles...)
RequireRoleOf(allowed) ==
  [h |-> "RequireRole", allowed |-> allowed, resource |-> "", action |-> ""]

\* auth.RequirePermission(resource, action)
RequirePermissionOf(resource, action) ==
  [h |-> "RequirePermission", allowed |-> <<>>, resource |-> resource,
   action |-> action]

Route(method, path, chain) == [method |-> method, path |-> path, chain |-> chain]

\* a route of the group that uses auth.AuthMiddleware(tokenManager)
Protected(method, path, chain) ==
  Route(method, path, <<H("AuthMiddleware")>> \o chain)

PublicRoutes == { Route("POST", "/auth/login", <<H("Login")>>) }

AuthRoutes ==
  { Protected("POST", "/auth/refresh", <<H("RefreshToken")>>),
    Protected("GET", "/auth/profile", <<H("GetProfile")>>),
    Protected("POST", "/auth/change-password", <<H("ChangePassword")>>) }

PatientRoutes ==
  { Protected("POST", "/patients",
      <<RequireRoleOf(<<"practitioner", "admin">>), H("CreatePatient")>>),
    Protected("GET", "/patients",
      <<RequireRoleOf(<<"practitioner", "admin", "nurse">>),
        H("GetPatients")>>),
    Protected("GET", "/patients/:id",
      <<RequireRoleOf(<<"practitioner", "admin", "nurse">>),
        H("GetPatient")>>),
    Protected("PUT", "/patients/:id",
      <<RequireRoleOf(<<"practitioner", "admin">>), H("UpdatePatient")>>),
    Protected("DELETE", "/patients/:id",
      <<RequireRoleOf(<<"admin">>), H("DeletePatient")>>),
    Protected("GET", "/patients/:patientId/observations",
      <<RequireRoleOf(<<"practitioner", "admin", "nurse">>),
        H("GetPatientObservations")>>) }

ObservationRoutes ==
  { Protected("POST", "/observations",
      <<RequireRoleOf(<<"practitioner", "admin", "lab-tech">>),
        H("CreateObservation")>>),
    Protected("GET", "/observations",
      <<RequireRoleOf(<<"practitioner", "admin", "nurse">>),
        H("GetObservations")>>),
    Protected("GET", "/observations/:id",
      <<RequireRoleOf(<<"practitioner", "admin", "nurse">>),
        H("GetObservation")>>),
    Protected("PUT", "/observations/:id",
      <<RequireRoleOf(<<"practitioner", "admin">>),
        H("UpdateObservation")>>),
    Protected("DELETE", "/observations/:id",
      <<RequireRoleOf(<<"admin">>), H("DeleteObservation")>>) }

ProtectedRoutes == AuthRoutes \cup PatientRoutes \cup ObservationRoutes

\* a chain with the RequirePermission guard; main registers none
PermissionRoutes ==
  { Protected("DELETE", "/guarded/patients",
      <<RequirePermissionOf("patients", "delete"), H("Guarded")>>) }

\* the handlers of the clinical resources; their work is outside the model
ResourceHandlers ==
  { "CreatePatient", "GetPatients", "GetPatient", "UpdatePatient",
    "DeletePatient", "GetPatientObservations", "CreateObservation",
    "GetObservations", "GetObservation", "UpdateObservation",
    "DeleteObservation", "Guarded" }

----------------------------------------------------------------------------
(* Requests *)

\* header values are sequences of words: literals and token strings
L(str) == [w |-> str, t |-> Garbage]
T(t) == [w |-> "<token>", t |-> t]

BearerPrefix == <<L("Bearer"), L(" ")>>

\* strings.HasPrefix
HasPrefix(str, prefix) ==
  Len(str) >= Len(prefix) /\ SubSeq(str, 1, Len(prefix)) = prefix

\* TrimPrefix that strips the scheme whatever its spelling
TrimPrefixAnyScheme(str, prefix) ==
  IF Len(str) >= Len(prefix) /\ str[2] = prefix[2]
    THEN SubSeq(str, Len(prefix) + 1, Len(str)) ELSE str

\* strings.TrimPrefix
TrimPrefix(str, prefix) ==
  IF HasPrefix(str, prefix) THEN SubSeq(str, Len(prefix) + 1, Len(str))
  ELSE str

\* the token string a header remainder is, if it is one
TokenOf(str) == IF Len(str) = 1 /\ str[1].w = "<token>" THEN str[1].t ELSE Garbage

NoBody == [email |-> "", password |-> "", newPassword |-> ""]

\* gin.Context of a request that entered its handler chain
NewContext(route, header, body, i) ==
  [route |-> route, header |-> header, body |-> body, inst |-> i,
   pc |-> 1, aborted |-> FALSE, trace |-> <<>>, keys |-> <<>>,
   validated |-> FALSE, verr |-> {}, decision |-> "", live |-> {},
   resp |-> <<>>, newToken |-> Garbage, logged |-> FALSE,
   panic |-> FALSE]

Done(r) == r.pc > Len(r.route.chain)

\* the request is at the chain entry named name
Serving(name) ==
  /\ req # <<>>
  /\ ~Done(req[1])
  /\ req[1].route.chain[req[1].pc].h = name

\* c.JSON(status, ...) without c.Abort(): the chain goes on
AbortNoStop(r, status, code, error) ==
  [r EXCEPT !.resp = <<[status |-> status, code |-> code, error |-> error]>>,
            !.trace = Append(@, r.route.chain[r.pc].h),
            !.pc = @ + 1]

\* c.JSON(status, ...) followed by c.Abort()
Abort(r, status, code, error) ==
  [r EXCEPT !.resp = <<[status |-> status, code |-> code, error |-> error]>>,
            !.aborted = TRUE,
            !.trace = Append(@, r.route.chain[r.pc].h),
            !.pc = Len(r.route.chain) + 1]

\* c.JSON(status, ...) of a final handler
Reply(r, status, code, error) ==
  [r EXCEPT !.resp = <<[status |-> status, code |-> code, error |-> error]>>,
            !.trace = Append(@, r.route.chain[r.pc].h),
            !.pc = @ + 1]

\* c.Next()
Proceed(r) ==
  [r EXCEPT !.trace = Append(@, r.route.chain[r.pc].h), !.pc = @ + 1]

NewRequest(route, header, body, i) ==
  /\ IF req = <<>> THEN TRUE ELSE Done(req[1])
  /\ req' = <<NewContext(route, header, body, i)>>
  /\ prevErr' = IF req # <<>> /\ req[1].verr # {} THEN req[1].verr
                ELSE prevErr
  /\ UNCHANGED <<clock, procs, held, call, registry, memo>>

----------------------------------------------------------------------------
(* Authorization gate: internal/auth/middleware.go *)

\* the identity AuthMiddleware stores in the context
Identity(claims) ==
  [user_id |-> claims.user_id, user_email |-> claims.email,
   user_roles |-> claims.roles, claims |-> claims]

\* the role names the registry holds now for the subject of claims
LiveRoles(claims) == { r.name : r \in PreloadRoles(claims.user_id) }

\* AuthMiddleware that reports the kind of the token error to the caller
AuthMiddlewareLeaky ==
  /\ Serving("AuthMiddleware")
  /\ LET r == req[1]
         tokenString == TrimPrefix(r.header, BearerPrefix)
         v == ValidateToken(TM, TokenOf(tokenString), Now(r.inst))
     IN req' =
          IF r.header = <<>>
            THEN <<Abort(r, 401, "MISSING_AUTH_HEADER",
                         "Authorization header required")>>
          ELSE IF tokenString = r.header
            THEN <<Abort(r, 401, "INVALID_AUTH_FORMAT",
                         "Bearer token required")>>
          ELSE IF ~v.ok
            THEN <<[Abort(r, 401,
                          IF "ErrTokenExpired" \in v.err
                            THEN "TOKEN_EXPIRED" ELSE "INVALID_TOKEN",
                          "Invalid or expired token")
                      EXCEPT !.validated = TRUE, !.verr = v.err]>>
          ELSE <<[Proceed(r) EXCEPT !.validated = TRUE,
                                    !.keys = <<Identity(v.claims)>>]>>
  /\ UNCHANGED <<clock, procs, held, call, prevErr, registry, memo>>

\* the handler returned by AuthMiddleware(tokenManager)
AuthMiddleware ==
  /\ Serving("AuthMiddleware")
  /\ LET r == req[1]
         tokenString == TrimPrefix(r.header, BearerPrefix)
         v == ValidateToken(TM, TokenOf(tokenString), Now(r.inst))
     IN req' =
          IF r.header = <<>>
            THEN <<Abort(r, 401, "MISSING_AUTH_HEADER",
                         "Authorization header required")>>
          ELSE IF tokenString = r.header
            THEN <<Abort(r, 401, "INVALID_AUTH_FORMAT",
                         "Bearer token required")>>
          ELSE IF ~v.ok
            THEN <<[Abort(r, 401, "INVALID_TOKEN",
                          "Invalid or expired token")
                      EXCEPT !.validated = TRUE, !.verr = v.err]>>
          ELSE <<[Proceed(r) EXCEPT !.validated = TRUE,
                                    !.keys = <<Identity(v.claims)>>]>>
  /\ UNCHANGED <<clock, procs, held, call, prevErr, registry, memo>>

\* the handler returned by RequireRole(allowedRoles...)
RequireRole ==
  /\ Serving("RequireRole")
  /\ LET r == req[1]
         allowedRoles == r.route.chain[r.pc].allowed
     IN IF r.keys = <<>>
          THEN /\ req' = <<Abort(r, 403, "NOT_AUTHENTICATED",
                                 "User authentication required")>>
        ELSE IF ~HasAnyRole(r.keys[1].claims, allowedRoles)
          THEN /\ req' = <<[Abort(r, 403, "INSUFFICIENT_PERMISSIONS",
                                  "Insufficient permissions")
                              EXCEPT !.decision = "deny",
                                     !.live = LiveRoles(r.keys[1].claims)]>>
        ELSE /\ req' = <<[Proceed(r)
                            EXCEPT !.decision = "allow",
                                   !.live = LiveRoles(r.keys[1].claims)]>>
  /\ UNCHANGED <<clock, procs, held, call, prevErr, registry, memo>>

\* an observer keeps a guard decision taken on the token that is held now
Remember ==
  /\ req # <<>> /\ held # <<>>
  /\ req[1].decision # ""
  /\ TokenOf(TrimPrefix(req[1].header, BearerPrefix)) = held[1].token
  /\ memo' = << [token |-> held[1].token, guard |-> req[1].route.chain[2],
                 decision |-> req[1].decision, live |-> req[1].live] >>
  /\ memo' # memo
  /\ UNCHANGED <<clock, procs, held, call, prevErr, registry, req>>

\* the table permissions of checkPermission
PermissionTable(role, resource) ==
  CASE role = "admin" /\ resource \in {"patients", "observations", "users"}
         -> {"create", "read", "update", "delete"}
    [] role = "practitioner" /\ resource \in {"patients", "observations"}
         -> {"create", "read", "update"}
    [] role = "nurse" /\ resource \in {"patients", "observations"}
         -> {"read"}
    [] role = "lab-tech" /\ resource = "patients" -> {"read"}
    [] role = "lab-tech" /\ resource = "observations"
         -> {"create", "read", "update"}
    [] OTHER -> {}

\* checkPermission
checkPermission(tokenRoles, resource, action) ==
  \E i \in 1..Len(tokenRoles) :
    action \in PermissionTable(tokenRoles[i], resource)

\* the handler returned by RequirePermission(resource, action)
RequirePermission ==
  /\ Serving("RequirePermission")
  /\ LET r == req[1]
         g == r.route.chain[r.pc]
     IN IF r.keys = <<>>
          THEN /\ req' = <<Abort(r, 403, "NOT_AUTHENTICATED",
                                 "User authentication required")>>
        ELSE IF ~checkPermission(r.keys[1].claims.roles, g.resource, g.action)
          THEN /\ req' = <<[Abort(r, 403, "INSUFFICIENT_PERMISSIONS",
                                  "Insufficient permissions")
                              EXCEPT !.decision = "deny",
                                     !.live = LiveRoles(r.keys[1].claims)]>>
        ELSE /\ req' = <<[Proceed(r)
                            EXCEPT !.decision = "allow",
                                   !.live = LiveRoles(r.keys[1].claims)]>>
  /\ UNCHANGED <<clock, procs, held, call, prevErr, registry, memo>>

----------------------------------------------------------------------------
(* Handlers: internal/handlers/auth.go and the resource handlers *)

\* the users rows matching the email whatever their active flag
ActiveByEmailAny(email) ==
  { u \in DOMAIN users : users[u].email = email }

\* the users rows matching email and active = true
ActiveByEmail(email) ==
  { u \in DOMAIN users : users[u].email = email /\ users[u].active }

\* what the client keeps of a token response
Issued(g, userID, email, roleNames, now) ==
  << [token |-> g.token, expiresAt |-> g.expiresAt, userID |-> userID,
      email |-> email, roles |-> roleNames, now |-> now] >>

\* AuthHandler.Login
Login ==
  /\ Serving("Login")
  /\ LET r == req[1]
         now == Now(r.inst)
     IN IF ActiveByEmail(r.body.email) = {}
          THEN /\ req' = <<Reply(r, 401, "INVALID_CREDENTIALS",
                                 "Invalid credentials")>>
               /\ UNCHANGED <<users, held, memo>>
        ELSE \E u \in ActiveByEmail(r.body.email) :
          IF ~CheckPassword(users[u], r.body.password)
            THEN /\ req' = <<Reply(r, 401, "INVALID_CREDENTIALS",
                                   "Invalid credentials")>>
                 /\ UNCHANGED <<users, held, memo>>
          ELSE \E roleNames \in GetRoleNames(u) :
            LET g == GenerateToken(TM, u, users[u].email, roleNames, now)
            IN /\ users' = [users EXCEPT ![u].lastLogin = now]
               /\ req' = <<[Reply(r, 200, "", "") EXCEPT !.newToken = g.token]>>
               /\ held' = Issued(g, u, users[u].email, roleNames, now)
               /\ memo' = <<>>
  /\ UNCHANGED <<clock, procs, call, prevErr, roles, permissions, userRoles,
                 rolePermissions>>

\* the users rows matching id and active = true
ActiveByID(userID) ==
  { u \in DOMAIN users : u = userID /\ users[u].active }

\* AuthHandler.RefreshToken
AuthHandler_RefreshToken ==
  /\ Serving("RefreshToken")
  /\ LET r == req[1]
         now == Now(r.inst)
     IN IF r.keys = <<>>
          THEN /\ req' = <<Reply(r, 401, "INVALID_TOKEN", "Invalid token")>>
               /\ UNCHANGED <<held, memo>>
        ELSE IF ActiveByID(r.keys[1].claims.user_id) = {}
          THEN /\ req' = <<Reply(r, 401, "USER_INACTIVE",
                                 "User not found or inactive")>>
               /\ UNCHANGED <<held, memo>>
        ELSE \E u \in ActiveByID(r.keys[1].claims.user_id) :
             \E roleNames \in GetRoleNames(u) :
          LET g == GenerateToken(TM, u, users[u].email, roleNames, now)
          IN /\ req' = <<[Reply(r, 200, "", "") EXCEPT !.newToken = g.token]>>
             /\ held' = Issued(g, u, users[u].email, roleNames, now)
             /\ memo' = <<>>
  /\ UNCHANGED <<clock, procs, call, prevErr, registry>>

\* AuthHandler.GetProfile
GetProfile ==
  /\ Serving("GetProfile")
  /\ LET r == req[1]
     IN req' =
          IF r.keys = <<>>
            THEN <<Reply(r, 401, "NOT_AUTHENTICATED", "User not authenticated")>>
          ELSE IF r.keys[1].user_id \notin DOMAIN users
            THEN <<Reply(r, 500, "DATABASE_ERROR",
                         "Failed to fetch user profile")>>
          ELSE <<Reply(r, 200, "", "")>>
  /\ UNCHANGED <<clock, procs, held, call, prevErr, registry, memo>>

\* AuthHandler.ChangePassword
ChangePassword ==
  /\ Serving("ChangePassword")
  /\ LET r == req[1]
     IN IF r.keys = <<>>
          THEN /\ req' = <<Reply(r, 401, "NOT_AUTHENTICATED",
                                 "User not authenticated")>>
               /\ UNCHANGED users
        ELSE IF r.keys[1].user_id \notin DOMAIN users
          THEN /\ req' = <<Reply(r, 500, "DATABASE_ERROR",
                                 "Failed to fetch user")>>
               /\ UNCHANGED users
        ELSE IF ~CheckPassword(users[r.keys[1].user_id], r.body.password)
          THEN /\ req' = <<Reply(r, 400, "INVALID_CURRENT_PASSWORD",
                                 "Current password is incorrect")>>
               /\ UNCHANGED users
        ELSE /\ users' = [users EXCEPT ![r.keys[1].user_id].password =
                                          HashPassword(r.body.newPassword)]
             /\ req' = <<Reply(r, 200, "", "")>>
  /\ UNCHANGED <<clock, procs, held, call, prevErr, roles, permissions, userRoles,
                 rolePermissions, memo>>

\* a handler of a clinical resource runs
ResourceHandler ==
  /\ req # <<>>
  /\ ~Done(req[1])
  /\ req[1].route.chain[req[1].pc].h \in ResourceHandlers
  /\ req' = <<Proceed(req[1])>>
  /\ UNCHANGED <<clock, procs, held, call, prevErr, registry, memo>>

----------------------------------------------------------------------------
(* Server specifications *)

\* the registry as InitializeDefaultRoles leaves it on an empty database
InitServer ==
  /\ clock = 0
  /\ held = <<>>
  /\ call = <<>>
  /\ prevErr = {}
  /\ users = InitUsers
  /\ roles = { RoleRow(n) : n \in DefaultRoleNames }
  /\ permissions = defaultPermissions
  /\ userRoles = {}
  /\ rolePermissions =
       UNION { { [role_id |-> RoleID(n),
                  permission_id |-> PermissionID(q[1], q[2])] :
                 q \in DefaultRolePermissions(n) } : n \in DefaultRoleNames }
  /\ req = <<>>
  /\ memo = <<>>
  /\ procs = [p \in Callers |-> IdleProc]

\* the token a client holds, or no token string at all
HeldToken == IF held = <<>> THEN Garbage ELSE held[1].token

\* Authorization header values: absent, without the Bearer scheme, and
\* Bearer with the held token or with a token string made from it (net/http
\* strips trailing blanks, so no value ends with the separator)
Headers ==
  { <<>>, <<L("Bearer")>>, <<T(HeldToken)>>, <<L("Bearer"), T(HeldToken)>>,
    <<L("Basic"), L(" "), T(HeldToken)>>,
    <<L("bearer"), L(" "), T(HeldToken)>> }
    \cup { BearerPrefix \o <<T(t)>> :
             t \in { HeldToken, Garbage,
                     [HeldToken EXCEPT !.sig.flip = TRUE],
                     [HeldToken EXCEPT !.alg = "none",
                        !.sig = Sign("none", HeldToken.claims, "")] } }

Bodies(route) ==
  IF route.path = "/auth/change-password"
    THEN { [email |-> "", password |-> pw, newPassword |-> "pw1"] :
             pw \in {"pw1", "bad"} }
  ELSE IF route.path = "/auth/login"
    THEN { [email |-> e, password |-> pw, newPassword |-> ""] :
             e \in {"a@x", "b@x", "nobody@x"}, pw \in {"pw1", "bad"} }
  ELSE {NoBody}

\* requests with any credential against the routes of the protected group
NextGate ==
  \/ \E i \in Instances, u \in Identities, rs \in RoleLists :
       held = <<>> /\ u.id = "u1" /\ CallGenerateToken(i, u.id, u.email, rs)
  \/ \E route \in ProtectedRoutes, h \in Headers, i \in Instances :
       \E body \in Bodies(route) : NewRequest(route, h, body, i)
  \/ AuthMiddleware
  \/ RequireRole
  \/ ResourceHandler
  \/ AuthHandler_RefreshToken
  \/ GetProfile
  \/ ChangePassword

SpecGate == InitServer /\ [][NextGate]_vars

\* role and permission ids the administrative calls are made with
AdminRoleNames == {"practitioner", "admin"}

\* requests with the held token while the registry changes
NextSnapshot ==
  \/ \E body \in Bodies(Route("POST", "/auth/login", <<H("Login")>>)) :
       NewRequest(Route("POST", "/auth/login", <<H("Login")>>), <<>>, body,
                  "i1")
  \/ \E route \in ProtectedRoutes \cup PermissionRoutes :
       \E body \in Bodies(route) :
         /\ held # <<>>
         /\ NewRequest(route, BearerPrefix \o <<T(HeldToken)>>, body, "i1")
  \/ Login
  \/ AuthMiddleware
  \/ RequireRole
  \/ RequirePermission
  \/ ResourceHandler
  \/ AuthHandler_RefreshToken
  \/ GetProfile
  \/ ChangePassword
  \/ Remember
  \/ \E n \in AdminRoleNames : AssignRole("u1", RoleID(n), "system")
  \/ \E n \in AdminRoleNames : UnassignRole("u1", RoleID(n))
  \/ DeleteRole(RoleID("admin"))
  \/ DeletePermission(PermissionID("patients", "delete"))

SpecSnapshot == InitServer /\ [][NextSnapshot]_vars

----------------------------------------------------------------------------
(* Properties of the authorization gate *)

\* the names in a list of role names
RoleSet(names) == { names[k] : k \in 1..Len(names) }

\* the chain entry name has run for the request
Ran(r, name) == \E k \in 1..Len(r.trace) : r.trace[k] = name

\* the handler the route was registered for has run
HandlerRan(r) == Ran(r, r.route.chain[Len(r.route.chain)].h)

\* the route carries a role guard between AuthMiddleware and its handler
HasGuard(r) ==
  Len(r.route.chain) = 3 /\ r.route.chain[2].h = "RequireRole"

\* the header reads "Bearer <token>"
BearerForm(h) == Len(h) >= 2 /\ h[1] = L("Bearer") /\ h[2] = L(" ")

\* the token string of a header of the Bearer form
Presented(r) == TokenOf(SubSeq(r.header, 3, Len(r.header)))

Unauthorized(code, error) ==
  [status |-> 401, code |-> code, error |-> error]

Forbidden(code, error) ==
  [status |-> 403, code |-> code, error |-> error]

\* the request ended at AuthMiddleware: no identity, no later chain entry
StoppedAtAuth(r) ==
  /\ r.aborted
  /\ Done(r)
  /\ r.keys = <<>>
  /\ r.trace = <<"AuthMiddleware">>

\* C7: whatever the kind of failure ValidateToken reports for the token of a
\* Bearer header, AuthMiddleware answers 401 INVALID_TOKEN "Invalid or
\* expired token", attaches no identity and stops the chain
C7_UniformRejection ==
  req # <<>> =>
    LET r == req[1]
    IN (/\ r.pc > 1
        /\ BearerForm(r.header)
        /\ ~ValidateToken(TM, Presented(r), Now(r.inst)).ok)
       => /\ r.resp = <<Unauthorized("INVALID_TOKEN",
                                     "Invalid or expired token")>>
          /\ StoppedAtAuth(r)

\* an expired token is rejected after a token with a bad signature was
C7_Witness ==
  /\ req # <<>>
  /\ req[1].pc > 1
  /\ BearerForm(req[1].header)
  /\ "ErrTokenExpired" \in req[1].verr
  /\ "ErrTokenSignatureInvalid" \in prevErr
  /\ req[1].resp = <<Unauthorized("INVALID_TOKEN",
                                  "Invalid or expired token")>>

\* C8: on a protected route the handler runs only after AuthMiddleware
\* accepted the token and then the role guard of the route, if it has one,
\* accepted the roles; an aborted request never reaches the handler
C8_HandlerOnlyAfterGate ==
  req # <<>> =>
    LET r == req[1]
        chain == r.route.chain
    IN /\ HandlerRan(r) =>
            /\ r.trace = [k \in 1..Len(chain) |-> chain[k].h]
            /\ r.trace[1] = "AuthMiddleware"
            /\ r.validated /\ r.verr = {} /\ r.keys # <<>>
            /\ BearerForm(r.header)
            /\ ValidateToken(TM, Presented(r), Now(r.inst)).ok
            /\ HasGuard(r) =>
                 /\ r.decision = "allow"
                 /\ RoleSet(r.keys[1].claims.roles)
                      \cap RoleSet(chain[2].allowed) # {}
            /\ ~r.aborted
       /\ r.aborted => ~HandlerRan(r) /\ Done(r)

\* the handler of a guarded route has run
C8_Witness ==
  /\ req # <<>>
  /\ req[1].trace = <<"AuthMiddleware", "RequireRole", "DeletePatient">>
  /\ req[1].decision = "allow"

\* C9: RequireRole(names) lets the request pass exactly when a role of the
\* token is among names, and otherwise answers 403, never 401
C9_RequireRoleIffMember ==
  req # <<>> =>
    LET r == req[1]
    IN (HasGuard(r) /\ Ran(r, "RequireRole") /\ r.keys # <<>>) =>
         IF RoleSet(r.keys[1].claims.roles)
              \cap RoleSet(r.route.chain[2].allowed) # {}
           THEN ~r.aborted /\ r.decision = "allow" /\ r.resp = <<>>
         ELSE /\ r.aborted
              /\ r.decision = "deny"
              /\ r.resp = <<Forbidden("INSUFFICIENT_PERMISSIONS",
                                      "Insufficient permissions")>>
              /\ ~HandlerRan(r)

\* a practitioner is refused by the guard that names admin only
C9_Witness ==
  /\ req # <<>>
  /\ HasGuard(req[1])
  /\ req[1].keys # <<>>
  /\ req[1].keys[1].claims.roles = <<"practitioner">>
  /\ req[1].route.chain[2].allowed = <<"admin">>
  /\ req[1].resp # <<>>
  /\ req[1].resp[1].status = 403

\* C10: without an Authorization header AuthMiddleware answers 401
\* MISSING_AUTH_HEADER, with a header that is not "Bearer <token>" it
\* answers 401 INVALID_AUTH_FORMAT; in both cases no token is validated and
\* the chain stops
C10_FailFast ==
  req # <<>> =>
    LET r == req[1]
    IN r.pc > 1 =>
         /\ r.header = <<>> =>
              /\ r.resp = <<Unauthorized("MISSING_AUTH_HEADER",
                                         "Authorization header required")>>
              /\ ~r.validated
              /\ StoppedAtAuth(r)
         /\ (r.header # <<>> /\ ~BearerForm(r.header)) =>
              /\ r.resp = <<Unauthorized("INVALID_AUTH_FORMAT",
                                         "Bearer token required")>>
              /\ ~r.validated
              /\ StoppedAtAuth(r)

\* a token that would validate is refused unseen under the Basic scheme
C10_Witness ==
  /\ req # <<>>
  /\ req[1].pc > 1
  /\ Len(req[1].header) = 3
  /\ req[1].header[1] = L("Basic")
  /\ ValidateToken(TM, req[1].header[3].t, Now(req[1].inst)).ok
  /\ ~req[1].validated
  /\ req[1].resp = <<Unauthorized("INVALID_AUTH_FORMAT",
                                  "Bearer token required")>>

----------------------------------------------------------------------------
(* Properties of the role snapshot *)

\* C4: two decisions of a guard on the same token are the same decision,
\* whatever happened to the registry between them
C4_DecisionFromSnapshot ==
  (req # <<>> /\ memo # <<>>) =>
    LET r == req[1]
        m == memo[1]
    IN (/\ r.decision # ""
        /\ BearerForm(r.header)
        /\ Presented(r) = m.token
        /\ r.route.chain[2] = m.guard)
       => r.decision = m.decision

\* the guard allows again on the token after the registry lost the role
\* that the first decision rested on
C4_Witness ==
  /\ req # <<>>
  /\ memo # <<>>
  /\ HasGuard(req[1])
  /\ BearerForm(req[1].header)
  /\ Presented(req[1]) = memo[1].token
  /\ req[1].route.chain[2] = memo[1].guard
  /\ req[1].decision = "allow"
  /\ memo[1].decision = "allow"
  /\ memo[1].live \cap RoleSet(memo[1].guard.allowed) # {}
  /\ req[1].live \cap RoleSet(req[1].route.chain[2].allowed) = {}

\* C6: the token the refresh endpoint issues carries the role set of the
\* token that was presented
C6_RefreshEndpointKeepsRoles ==
  req # <<>> =>
    LET r == req[1]
    IN (/\ r.route.path = "/auth/refresh"
        /\ Done(r)
        /\ r.resp # <<>>
        /\ r.resp[1].status = 200)
       => RoleSet(r.newToken.claims.roles)
            = RoleSet(r.keys[1].claims.roles)

----------------------------------------------------------------------------
(* Registry calls, statement by statement: internal/auth/rbac.go *)

\* what a registry call leaves alone
session == <<clock, held, call, prevErr, req, memo>>

\* the caller can start a call
Ready(p) == procs[p].pc \in {"idle", "done"}

\* the frame of a call that starts now
Enter(p, op) ==
  [IdleProc EXCEPT !.op = op, !.calls = procs[p].calls,
                   !.crashed = procs[p].crashed]

\* the call returns err ("" stands for nil)
Return(pr, err) == [pr EXCEPT !.pc = "done", !.err = err]

\* First(&user, "id = ?", userID) finds a row
UserExists(userID) == userID \in DOMAIN users

\* First(&role, "id = ?", roleID) that finds a row whatever the id
RoleExistsAlways(roleID) == TRUE

\* First(&role, "id = ?", roleID) finds a row
RoleExists(roleID) == \E r \in roles : r.id = roleID

\* Where("user_id = ? AND role_id = ?", ...).First(&existingAssignment)
AssignmentExists(userID, roleID) ==
  \E ur \in userRoles : ur.user_id = userID /\ ur.role_id = roleID

\* Create(assignment) on a table without a key
InsertUserRoleNoKey(table, row) == [ok |-> TRUE, table |-> table \cup {row}]

\* Create(assignment): user_roles has the primary key (user_id, role_id)
\* and, as the join table of User.Roles, references users and roles
InsertUserRole(table, row) ==
  IF \/ \E ur \in table :
          ur.user_id = row.user_id /\ ur.role_id = row.role_id
     \/ row.user_id \notin DOMAIN users
     \/ ~\E r \in roles : r.id = row.role_id
    THEN [ok |-> FALSE, table |-> table]
  ELSE [ok |-> TRUE, table |-> table \cup {row}]

\* who grants when caller p assigns
Grantor(p) == <<"admin-of", p>>

\* AssignRoleToUser up to the user check
CallAssignRoleToUser(p, userID, roleID, grantedBy) ==
  /\ Ready(p)
  /\ LET e == [Enter(p, "AssignRoleToUser")
                 EXCEPT !.userID = userID, !.roleID = roleID,
                        !.grantedBy = grantedBy]
     IN procs' = [procs EXCEPT ![p] =
                    IF ~UserExists(userID) THEN Return(e, "user not found")
                    ELSE [e EXCEPT !.pc = "check-role"]]
  /\ UNCHANGED <<registry, session>>

\* AssignRoleToUser: the role check
AssignCheckRole(p) ==
  /\ procs[p].op = "AssignRoleToUser" /\ procs[p].pc = "check-role"
  /\ procs' = [procs EXCEPT ![p] =
                 IF ~RoleExists(procs[p].roleID)
                   THEN Return(procs[p], "role not found")
                 ELSE [procs[p] EXCEPT !.pc = "check-assignment"]]
  /\ UNCHANGED <<registry, session>>

\* the callers that passed the existence check for the same pair and have
\* not inserted yet
Racing(p) ==
  { q \in Callers \ {p} :
      /\ procs[q].op = "AssignRoleToUser" /\ procs[q].pc = "create"
      /\ procs[q].userID = procs[p].userID
      /\ procs[q].roleID = procs[p].roleID }

\* AssignRoleToUser: the check for an existing assignment
AssignCheckExisting(p) ==
  /\ procs[p].op = "AssignRoleToUser" /\ procs[p].pc = "check-assignment"
  /\ procs' =
       IF AssignmentExists(procs[p].userID, procs[p].roleID)
         THEN [procs EXCEPT ![p] = Return(@, "user already has this role")]
       ELSE [q \in Callers |->
               IF q = p THEN [procs[p] EXCEPT !.pc = "create",
                                              !.peers = Racing(p)]
               ELSE IF q \in Racing(p)
                 THEN [procs[q] EXCEPT !.peers = @ \cup {p}]
               ELSE procs[q]]
  /\ UNCHANGED <<registry, session>>

\* AssignRoleToUser: Create(assignment)
AssignCreate(p) ==
  /\ procs[p].op = "AssignRoleToUser" /\ procs[p].pc = "create"
  /\ LET ins == InsertUserRole(userRoles,
                  [user_id |-> procs[p].userID, role_id |-> procs[p].roleID,
                   granted_by |-> procs[p].grantedBy])
     IN /\ userRoles' = ins.table
        /\ procs' = [procs EXCEPT ![p] =
                       Return(@, IF ins.ok THEN ""
                                 ELSE "failed to assign role")]
  /\ UNCHANGED <<users, roles, permissions, rolePermissions, session>>

\* result.RowsAffected of the Delete in RemoveRoleFromUser
RowsAffected(userID, roleID) ==
  Cardinality({ ur \in userRoles :
                  ur.user_id = userID /\ ur.role_id = roleID })

\* RemoveRoleFromUser: one statement
CallRemoveRoleFromUser(p, userID, roleID) ==
  /\ Ready(p)
  /\ userRoles' = RemoveRoleFromUser(userID, roleID)
  /\ procs' = [procs EXCEPT ![p] =
                 Return([Enter(p, "RemoveRoleFromUser")
                           EXCEPT !.userID = userID, !.roleID = roleID],
                        IF RowsAffected(userID, roleID) = 0
                          THEN "role assignment not found" ELSE "")]
  /\ UNCHANGED <<users, roles, permissions, rolePermissions, session>>

\* the ids the assignment calls are made with: present and absent ones
AssignUsers == {"u1", "ghost"}
AssignRoles == {RoleID("admin"), RoleID("nurse"), RoleID("ghost")}

\* two callers assign and remove roles on the seeded registry
NextAssign ==
  \/ \E p \in Callers, userID \in AssignUsers, roleID \in AssignRoles :
       CallAssignRoleToUser(p, userID, roleID, Grantor(p))
  \/ \E p \in Callers : AssignCheckRole(p)
  \/ \E p \in Callers : AssignCheckExisting(p)
  \/ \E p \in Callers : AssignCreate(p)
  \/ \E p \in Callers, userID \in AssignUsers, roleID \in AssignRoles :
       CallRemoveRoleFromUser(p, userID, roleID)

SpecAssign == InitServer /\ [][NextAssign]_vars

\* the rows of table that assign role roleID to user userID
RowsOf(table, userID, roleID) ==
  { ur \in table : ur.user_id = userID /\ ur.role_id = roleID }

\* C11: the assignment table never holds two rows for one (user, role)
\* pair, and of two AssignRoleToUser calls for the same pair that both
\* passed the existence check before either inserted at most one returns
\* nil
C11_OneRowOneWinner ==
  /\ \A a, b \in userRoles :
       (a.user_id = b.user_id /\ a.role_id = b.role_id) => a = b
  /\ \A p, q \in Callers :
       (/\ p # q
        /\ q \in procs[p].peers /\ p \in procs[q].peers
        /\ procs[p].pc = "done" /\ procs[q].pc = "done")
       => ~(procs[p].err = "" /\ procs[q].err = "")

\* both callers passed the check, one inserted, the other was refused
C11_Witness ==
  /\ "p2" \in procs["p1"].peers /\ "p1" \in procs["p2"].peers
  /\ procs["p1"].pc = "done" /\ procs["p2"].pc = "done"
  /\ procs["p1"].err = "failed to assign role"
  /\ procs["p2"].err = ""
  /\ Cardinality(RowsOf(userRoles, "u1", RoleID("admin"))) = 1

C13_RemoveContract ==
  [][\A p \in Callers :
       (procs'[p] # procs[p] /\ procs'[p].op = "RemoveRoleFromUser") =>
         LET a == procs'[p]
             hit == RowsOf(userRoles, a.userID, a.roleID)
         IN /\ users' = users /\ roles' = roles
            /\ permissions' = permissions
            /\ rolePermissions' = rolePermissions
            /\ a.pc = "done"
            /\ IF hit = {}
                 THEN /\ a.err = "role assignment not found"
                      /\ userRoles' = userRoles
               ELSE /\ a.err = ""
                    /\ userRoles' = userRoles \ hit]_vars

\* one of two assignments was removed, the other one is still there
C13_Witness ==
  /\ procs["p1"].op = "RemoveRoleFromUser" /\ procs["p1"].pc = "done"
  /\ procs["p1"].err = ""
  /\ procs["p1"].userID = "u1" /\ procs["p1"].roleID = RoleID("admin")
  /\ RowsOf(userRoles, "u1", RoleID("admin")) = {}
  /\ RowsOf(userRoles, "u1", RoleID("nurse")) # {}

----------------------------------------------------------------------------
(* CreateRole, DeleteRole and DeletePermission, statement by statement *)

\* Where("name = ?", name).First(&existingRole) finds a row
RoleNameExists(name) == \E r \in roles : r.name = name

\* CreateRole up to the check of the name
CallCreateRole(p, name, permissionIDs) ==
  /\ Ready(p)
  /\ LET e == [Enter(p, "CreateRole")
                 EXCEPT !.name = name, !.permissionIDs = permissionIDs]
     IN procs' = [procs EXCEPT ![p] =
                    IF RoleNameExists(name)
                      THEN Return(e, "role already exists")
                    ELSE [e EXCEPT !.pc = "create"]]
  /\ UNCHANGED <<registry, session>>

\* CreateRole: Create(role); roles.name has a unique index
CreateRoleCreate(p) ==
  /\ procs[p].op = "CreateRole" /\ procs[p].pc = "create"
  /\ IF RoleNameExists(procs[p].name)
       THEN /\ procs' = [procs EXCEPT ![p] =
                           Return(@, "failed to create role")]
            /\ UNCHANGED roles
     ELSE /\ roles' = roles \cup {RoleRow(procs[p].name)}
          /\ procs' = [procs EXCEPT ![p] =
                         IF procs[p].permissionIDs = {} THEN Return(@, "")
                         ELSE [@ EXCEPT !.pc = "find"]]
  /\ UNCHANGED <<users, permissions, userRoles, rolePermissions, session>>

\* CreateRole: Where("id IN ?", permissionIDs).Find(&permissions)
CreateRoleFind(p) ==
  /\ procs[p].op = "CreateRole" /\ procs[p].pc = "find"
  /\ procs' = [procs EXCEPT ![p] =
                 [@ EXCEPT !.pc = "append",
                           !.found = { q \in permissions :
                                         q.id \in procs[p].permissionIDs }]]
  /\ UNCHANGED <<registry, session>>

\* the callers inside a transaction
InTx(q) == procs[q].pc \notin {"idle", "done"}

\* no other transaction holds a row of doomed in the table named f
Unlocked(p, f, doomed) ==
  \A q \in Callers \ {p} : InTx(q) => procs[q].pending[f] \cap doomed = {}

\* CreateRole: Association("Permissions").Append(&permissions); gorm saves
\* the permissions it was given with ON CONFLICT DO NOTHING and then the
\* links, in one transaction; the links reference the role row, which a
\* DeleteRole may have removed meanwhile
CreateRoleAppend(p) ==
  /\ procs[p].op = "CreateRole" /\ procs[p].pc = "append"
  /\ Unlocked(p, "roles", { r \in roles : r.name = procs[p].name })
  /\ Unlocked(p, "permissions", procs[p].found)
  /\ IF ~RoleNameExists(procs[p].name)
       THEN /\ procs' = [procs EXCEPT ![p] =
                           Return(@, "failed to associate permissions")]
            /\ UNCHANGED <<permissions, rolePermissions>>
     ELSE /\ permissions' = permissions \cup procs[p].found
          /\ rolePermissions' =
               rolePermissions \cup
                 { [role_id |-> RoleID(procs[p].name),
                    permission_id |-> q.id] : q \in procs[p].found }
          /\ procs' = [procs EXCEPT ![p] = Return(@, "")]
  /\ UNCHANGED <<users, roles, userRoles, session>>

\* a DELETE that is committed at once
AfterStatementAutocommit(table, doomed) == table \ doomed

\* the committed table after a DELETE inside an open transaction
AfterStatement(table, doomed) == table

\* a commit that loses the deletes
CommitNothing(table, doomed) == table

\* the committed table after Commit()
Commit(table, doomed) == table \ doomed

\* tx.Rollback() and the error return
RolledBack(pr, err) == Return(pr, err)

\* DeleteRole: s.db.Begin()
CallDeleteRole(p, roleID) ==
  /\ Ready(p)
  /\ procs' = [procs EXCEPT ![p] =
                 [Enter(p, "DeleteRole")
                    EXCEPT !.roleID = roleID, !.pc = "del-user-roles"]]
  /\ UNCHANGED <<registry, session>>

\* DeleteRole: tx.Where("role_id = ?", roleID).Delete(&UserRole{})
DeleteRoleUserRoles(p, fail) ==
  /\ procs[p].op = "DeleteRole" /\ procs[p].pc = "del-user-roles"
  /\ LET doomed == { ur \in userRoles : ur.role_id = procs[p].roleID }
     IN /\ Unlocked(p, "userRoles", doomed)
        /\ IF fail
             THEN /\ procs' = [procs EXCEPT ![p] =
                      RolledBack(@, "failed to remove role from users")]
                  /\ UNCHANGED userRoles
           ELSE /\ procs' = [procs EXCEPT ![p] =
                      [@ EXCEPT !.pc = "del-role-perms",
                                !.pending.userRoles = doomed]]
                /\ userRoles' = AfterStatement(userRoles, doomed)
  /\ UNCHANGED <<users, roles, permissions, rolePermissions, session>>

\* DeleteRole: tx.Where("role_id = ?", roleID).Delete(&RolePermission{})
DeleteRoleRolePermissions(p, fail) ==
  /\ procs[p].op = "DeleteRole" /\ procs[p].pc = "del-role-perms"
  /\ LET doomed == { rp \in rolePermissions :
                       rp.role_id = procs[p].roleID }
     IN /\ Unlocked(p, "rolePermissions", doomed)
        /\ IF fail
             THEN /\ procs' = [procs EXCEPT ![p] =
                      RolledBack(@, "failed to remove role permissions")]
                  /\ UNCHANGED rolePermissions
           ELSE /\ procs' = [procs EXCEPT ![p] =
                      [@ EXCEPT !.pc = "del-role",
                                !.pending.rolePermissions = doomed]]
                /\ rolePermissions' = AfterStatement(rolePermissions, doomed)
  /\ UNCHANGED <<users, roles, permissions, userRoles, session>>

\* join tables without foreign keys: no row is seen to reference the role
RoleReferencedNever(p, roleID) == FALSE

\* rows of the join tables that still reference the role: the foreign keys
\* of user_roles and role_permissions refuse the delete of the role row
RoleReferenced(p, roleID) ==
  \/ \E ur \in userRoles \ procs[p].pending.userRoles : ur.role_id = roleID
  \/ \E rp \in rolePermissions \ procs[p].pending.rolePermissions :
       rp.role_id = roleID

\* DeleteRole: tx.Delete(&Role{}, "id = ?", roleID)
DeleteRoleRow(p, fail) ==
  /\ procs[p].op = "DeleteRole" /\ procs[p].pc = "del-role"
  /\ LET doomed == { r \in roles : r.id = procs[p].roleID }
     IN /\ Unlocked(p, "roles", doomed)
        /\ IF fail \/ RoleReferenced(p, procs[p].roleID)
             THEN /\ procs' = [procs EXCEPT ![p] =
                      RolledBack(@, "failed to delete role")]
                  /\ UNCHANGED roles
           ELSE /\ procs' = [procs EXCEPT ![p] =
                      [@ EXCEPT !.pc = "commit", !.pending.roles = doomed]]
                /\ roles' = AfterStatement(roles, doomed)
  /\ UNCHANGED <<users, permissions, userRoles, rolePermissions, session>>

\* DeletePermission: s.db.Begin()
CallDeletePermission(p, permissionID) ==
  /\ Ready(p)
  /\ procs' = [procs EXCEPT ![p] =
                 [Enter(p, "DeletePermission")
                    EXCEPT !.permissionID = permissionID,
                           !.pc = "del-perm-roles"]]
  /\ UNCHANGED <<registry, session>>

\* DeletePermission:
\* tx.Where("permission_id = ?", permissionID).Delete(&RolePermission{})
DeletePermissionRoles(p, fail) ==
  /\ procs[p].op = "DeletePermission" /\ procs[p].pc = "del-perm-roles"
  /\ LET doomed == { rp \in rolePermissions :
                       rp.permission_id = procs[p].permissionID }
     IN /\ Unlocked(p, "rolePermissions", doomed)
        /\ IF fail
             THEN /\ procs' = [procs EXCEPT ![p] =
                      RolledBack(@, "failed to remove permission from roles")]
                  /\ UNCHANGED rolePermissions
           ELSE /\ procs' = [procs EXCEPT ![p] =
                      [@ EXCEPT !.pc = "del-perm",
                                !.pending.rolePermissions = doomed]]
                /\ rolePermissions' = AfterStatement(rolePermissions, doomed)
  /\ UNCHANGED <<users, roles, permissions, userRoles, session>>

\* a link that still references the permission
PermissionReferenced(p, permissionID) ==
  \E rp \in rolePermissions \ procs[p].pending.rolePermissions :
    rp.permission_id = permissionID

\* DeletePermission: tx.Delete(&Permission{}, "id = ?", permissionID)
DeletePermissionRow(p, fail) ==
  /\ procs[p].op = "DeletePermission" /\ procs[p].pc = "del-perm"
  /\ LET doomed == { q \in permissions : q.id = procs[p].permissionID }
     IN /\ Unlocked(p, "permissions", doomed)
        /\ IF fail \/ PermissionReferenced(p, procs[p].permissionID)
             THEN /\ procs' = [procs EXCEPT ![p] =
                      RolledBack(@, "failed to delete permission")]
                  /\ UNCHANGED permissions
           ELSE /\ procs' = [procs EXCEPT ![p] =
                      [@ EXCEPT !.pc = "commit",
                                !.pending.permissions = doomed]]
                /\ permissions' = AfterStatement(permissions, doomed)
  /\ UNCHANGED <<users, roles, userRoles, rolePermissions, session>>

\* return tx.Commit().Error of DeleteRole and of DeletePermission
TxCommit(p, fail) ==
  /\ procs[p].op \in {"DeleteRole", "DeletePermission"}
  /\ procs[p].pc = "commit"
  /\ IF fail
       THEN /\ procs' = [procs EXCEPT ![p] = RolledBack(@, "commit failed")]
            /\ UNCHANGED <<roles, permissions, userRoles, rolePermissions>>
     ELSE /\ procs' = [procs EXCEPT ![p] = Return(@, "")]
          /\ userRoles' = Commit(userRoles, procs[p].pending.userRoles)
          /\ rolePermissions' =
               Commit(rolePermissions, procs[p].pending.rolePermissions)
          /\ roles' = Commit(roles, procs[p].pending.roles)
          /\ permissions' = Commit(permissions, procs[p].pending.permissions)
  /\ UNCHANGED <<users, session>>

\* names and ids the calls are made with: present and absent ones
CreateNames == {"auditor", "admin"}
GhostPermission == PermissionID("ghost", "read")
CreateIDs ==
  { {}, {PermissionID("patients", "read")},
    {PermissionID("patients", "read"), GhostPermission} }
GhostRole == RoleID("ghost")
\* (ids are uuids drawn at Create: the role a CreateRole makes has an id no
\* caller can hold before, so the deletes name seeded roles or no role)
DeleteRoleIDs == {RoleID("lab-tech"), RoleID("nurse"), GhostRole}
DeletePermissionIDs == {PermissionID("observations", "update"), GhostPermission}
HeldRoleNames == {"nurse", "lab-tech"}

\* two callers create and delete roles and permissions while u1 is given
\* roles; any statement of a transaction may fail
NextRoles ==
  \/ \E n \in HeldRoleNames :
       /\ Unlocked("", "roles", { r \in roles : r.name = n })
       /\ AssignRole("u1", RoleID(n), "system")
  \/ \E p \in Callers, name \in CreateNames, ids \in CreateIDs :
       CallCreateRole(p, name, ids)
  \/ \E p \in Callers : CreateRoleCreate(p)
  \/ \E p \in Callers : CreateRoleFind(p)
  \/ \E p \in Callers : CreateRoleAppend(p)
  \/ \E p \in Callers, roleID \in DeleteRoleIDs : CallDeleteRole(p, roleID)
  \/ \E p \in Callers, fail \in BOOLEAN : DeleteRoleUserRoles(p, fail)
  \/ \E p \in Callers, fail \in BOOLEAN : DeleteRoleRolePermissions(p, fail)
  \/ \E p \in Callers, fail \in BOOLEAN : DeleteRoleRow(p, fail)
  \/ \E p \in Callers, id \in DeletePermissionIDs :
       CallDeletePermission(p, id)
  \/ \E p \in Callers, fail \in BOOLEAN : DeletePermissionRoles(p, fail)
  \/ \E p \in Callers, fail \in BOOLEAN : DeletePermissionRow(p, fail)
  \/ \E p \in Callers, fail \in BOOLEAN : TxCommit(p, fail)

SpecRoles == InitServer /\ [][NextRoles]_vars

\* the permissions the user holds through roles other than roleID
PermissionsNotThrough(userID, roleID) ==
  { q \in permissions :
      \E ur \in userRoles, r \in roles, rp \in rolePermissions :
        /\ ur.user_id = userID /\ ur.role_id = r.id /\ r.id # roleID
        /\ rp.role_id = r.id /\ rp.permission_id = q.id }

\* C14: a CreateRole call with a permission id that names no permission
\* returns an error
C14_CreateRoleRejectsUnknownPermission ==
  \A p \in Callers :
    (/\ procs[p].op = "CreateRole" /\ procs[p].pc = "done"
     /\ GhostPermission \in procs[p].permissionIDs)
    => procs[p].err # ""

\* C15: when DeleteRole returns nil the role row is gone, no row of
\* user_roles or role_permissions names the role, GetUserRoles of no user
\* has it, and GetUserPermissions of every user is what the user holds
\* through the other roles
C15_DeleteRoleRemovesEverything ==
  [][\A p \in Callers :
       (/\ procs[p].op = "DeleteRole" /\ procs[p].pc = "commit"
        /\ procs'[p].pc = "done" /\ procs'[p].err = "")
       => LET r == procs[p].roleID
          IN /\ ~\E x \in roles' : x.id = r
             /\ ~\E ur \in userRoles' : ur.role_id = r
             /\ ~\E rp \in rolePermissions' : rp.role_id = r
             /\ \A u \in DOMAIN users :
                  /\ ~\E x \in PreloadRoles(u)' : x.id = r
                  /\ GetUserPermissions(u)' = PermissionsNotThrough(u, r)]_vars

\* lab-tech was deleted while u1 held it next to nurse: u1 is left with
\* the permissions of nurse
C15_Witness ==
  \E p \in Callers :
    /\ procs[p].op = "DeleteRole" /\ procs[p].pc = "done"
    /\ procs[p].err = ""
    /\ procs[p].roleID = RoleID("lab-tech")
    /\ \E ur \in procs[p].pending.userRoles : ur.user_id = "u1"
    /\ ~RoleNameExists("lab-tech")
    /\ { q.name : q \in GetUserPermissions("u1") }
         = DefaultRolePermissions("nurse")

\* C16: a DeleteRole call with an id that names no role returns an error
C16_DeleteRoleRejectsUnknownRole ==
  \A p \in Callers :
    (/\ procs[p].op = "DeleteRole" /\ procs[p].pc = "done"
     /\ procs[p].roleID = GhostRole)
    => procs[p].err # ""

----------------------------------------------------------------------------
(* InitializeDefaultRoles, statement by statement *)

MaxCalls == 3

\* the number of times InitializeDefaultRoles was started by the instances
RECURSIVE CallsOf(_)
CallsOf(S) ==
  IF S = {} THEN 0
  ELSE LET p == CHOOSE x \in S : TRUE
       IN procs[p].calls + CallsOf(S \ {p})

\* the slice defaultPermissions in its order
SeedResources == <<"patients", "observations", "users">>
SeedActions == <<"create", "read", "update", "delete">>
NumDefaultPermissions == Len(SeedResources) * Len(SeedActions)
DefaultPermissionAt(k) ==
  PermissionRow(SeedResources[((k - 1) \div Len(SeedActions)) + 1],
                SeedActions[((k - 1) % Len(SeedActions)) + 1])

\* Where("name = ?", perm.Name).First(&existing) that never finds a row
PermissionNameExistsNever(name) == FALSE

\* Where("name = ?", perm.Name).First(&existing) finds a row
PermissionNameExists(name) == \E q \in permissions : q.name = name

\* the registry holds the canonical rows and links and nothing else
Seeded ==
  /\ permissions = defaultPermissions
  /\ roles = { RoleRow(n) : n \in DefaultRoleNames }
  /\ rolePermissions =
       UNION { { [role_id |-> RoleID(n),
                  permission_id |-> PermissionID(q[1], q[2])] :
                 q \in DefaultRolePermissions(n) } : n \in DefaultRoleNames }

\* the loop over defaultPermissions moves on, then the loop over the map
NextPermission(pr) ==
  IF pr.k < NumDefaultPermissions THEN [pr EXCEPT !.k = @ + 1,
                                                  !.pc = "perm-check"]
  ELSE [pr EXCEPT !.pc = "role-check", !.todo = DefaultRoleNames]

\* the loop over the map rolePermissions is done with roleName
NextRole(pr, roleName) ==
  IF pr.todo \ {roleName} = {} THEN Return(pr, "")
  ELSE [pr EXCEPT !.pc = "role-check", !.todo = @ \ {roleName}, !.cur = ""]

\* a process instance starts InitializeDefaultRoles
CallInitializeDefaultRoles(p) ==
  /\ Ready(p)
  /\ CallsOf(Callers) < MaxCalls
  /\ procs' = [procs EXCEPT ![p] =
                 [Enter(p, "InitializeDefaultRoles")
                    EXCEPT !.pc = "perm-check", !.k = 1,
                           !.calls = @ + 1, !.onSeeded = Seeded]]
  /\ UNCHANGED <<registry, session>>

\* the existence check of a default permission
SeedPermissionCheck(p) ==
  /\ procs[p].op = "InitializeDefaultRoles" /\ procs[p].pc = "perm-check"
  /\ procs' = [procs EXCEPT ![p] =
                 IF PermissionNameExists(DefaultPermissionAt(procs[p].k).name)
                   THEN NextPermission(@)
                 ELSE [@ EXCEPT !.pc = "perm-create"]]
  /\ UNCHANGED <<registry, session>>

\* Create(&perm); permissions.name has a unique index
SeedPermissionCreate(p) ==
  /\ procs[p].op = "InitializeDefaultRoles" /\ procs[p].pc = "perm-create"
  /\ LET perm == DefaultPermissionAt(procs[p].k)
     IN IF \E q \in permissions : q.name = perm.name
          THEN /\ procs' = [procs EXCEPT ![p] =
                              Return(@, "failed to create permission")]
               /\ UNCHANGED permissions
        ELSE /\ permissions' = permissions \cup {perm}
             /\ procs' = [procs EXCEPT ![p] = NextPermission(@)]
  /\ UNCHANGED <<users, roles, userRoles, rolePermissions, session>>

\* the existence check of the role the map iteration yields next
SeedRoleCheck(p, roleName) ==
  /\ procs[p].op = "InitializeDefaultRoles" /\ procs[p].pc = "role-check"
  /\ roleName \in procs[p].todo
  /\ procs' = [procs EXCEPT ![p] =
                 IF RoleNameExists(roleName) THEN NextRole(@, roleName)
                 ELSE [@ EXCEPT !.pc = "role-create", !.cur = roleName]]
  /\ UNCHANGED <<registry, session>>

\* Create(&role); roles.name has a unique index
SeedRoleCreate(p) ==
  /\ procs[p].op = "InitializeDefaultRoles" /\ procs[p].pc = "role-create"
  /\ IF RoleNameExists(procs[p].cur)
       THEN /\ procs' = [procs EXCEPT ![p] =
                           Return(@, "failed to create role")]
            /\ UNCHANGED roles
     ELSE /\ roles' = roles \cup {RoleRow(procs[p].cur)}
          /\ procs' = [procs EXCEPT ![p] = [@ EXCEPT !.pc = "role-find"]]
  /\ UNCHANGED <<users, permissions, userRoles, rolePermissions, session>>

\* Where("name IN ?", permNames).Find(&permissions)
SeedRoleFind(p) ==
  /\ procs[p].op = "InitializeDefaultRoles" /\ procs[p].pc = "role-find"
  /\ procs' = [procs EXCEPT ![p] =
                 [@ EXCEPT !.pc = "role-append",
                           !.found =
                             { q \in permissions :
                                 q.name \in
                                   DefaultRolePermissions(procs[p].cur) }]]
  /\ UNCHANGED <<registry, session>>

\* Association("Permissions").Append(&permissions)
SeedRoleAppend(p) ==
  /\ procs[p].op = "InitializeDefaultRoles" /\ procs[p].pc = "role-append"
  /\ rolePermissions' =
       rolePermissions \cup
         { [role_id |-> RoleID(procs[p].cur), permission_id |-> q.id] :
             q \in procs[p].found }
  /\ procs' = [procs EXCEPT ![p] =
                 NextRole([@ EXCEPT !.found = {}], procs[p].cur)]
  /\ UNCHANGED <<users, roles, permissions, userRoles, session>>

\* the process instance is stopped in the middle of the seeding
Crash(p) ==
  /\ procs[p].op = "InitializeDefaultRoles"
  /\ InTx(p)
  /\ procs' = [procs EXCEPT ![p] =
                 [IdleProc EXCEPT !.calls = procs[p].calls,
                                  !.crashed = TRUE]]
  /\ UNCHANGED <<registry, session>>

\* an empty database after AutoMigrate
InitSeed ==
  /\ clock = 0
  /\ held = <<>>
  /\ call = <<>>
  /\ prevErr = {}
  /\ users = InitUsers
  /\ roles = {}
  /\ permissions = {}
  /\ userRoles = {}
  /\ rolePermissions = {}
  /\ req = <<>>
  /\ memo = <<>>
  /\ procs = [p \in Callers |-> IdleProc]

\* two process instances seed the same database at start-up
NextSeed ==
  \/ \E p \in Callers : CallInitializeDefaultRoles(p)
  \/ \E p \in Callers : SeedPermissionCheck(p)
  \/ \E p \in Callers : SeedPermissionCreate(p)
  \/ \E p \in Callers, roleName \in DefaultRoleNames :
       SeedRoleCheck(p, roleName)
  \/ \E p \in Callers : SeedRoleCreate(p)
  \/ \E p \in Callers : SeedRoleFind(p)
  \/ \E p \in Callers : SeedRoleAppend(p)
  \/ \E p \in Callers : Crash(p)

SpecSeed == InitSeed /\ [][NextSeed]_vars

\* p has returned from a call of InitializeDefaultRoles
SeedingReturned(p) ==
  procs[p].op = "InitializeDefaultRoles" /\ procs[p].pc = "done"

\* the twelve permissions exist and every canonical role is linked to the
\* whole of its mapping
FullySeeded ==
  /\ \A k \in 1..NumDefaultPermissions :
       \E q \in permissions : q.name = DefaultPermissionAt(k).name
  /\ \A n \in DefaultRoleNames :
       \E r \in roles :
         /\ r.name = n
         /\ \A m \in DefaultRolePermissions(n) :
              \E q \in permissions :
                /\ q.name = m
                /\ [role_id |-> r.id, permission_id |-> q.id]
                     \in rolePermissions

\* C18: when two instances run InitializeDefaultRoles on an empty registry
\* and none is stopped, there is one row for each canonical name and no
\* call returns an error.
C18_ConcurrentSeedingSucceeds ==
  (\A p \in Callers : ~procs[p].crashed) =>
    /\ \A n \in DefaultRoleNames :
         Cardinality({ r \in roles : r.name = n }) <= 1
    /\ \A k \in 1..NumDefaultPermissions :
         Cardinality({ q \in permissions :
                         q.name = DefaultPermissionAt(k).name }) <= 1
    /\ \A p \in Callers : SeedingReturned(p) => procs[p].err = ""

\* C19: a call of InitializeDefaultRoles that starts on a registry an
\* earlier call has seeded changes nothing in the registry with any of its
\* steps and returns without an error.
C19_ReseedingChangesNothing ==
  [][\A p \in Callers :
       ( /\ procs'[p] # procs[p]
         /\ procs'[p].op = "InitializeDefaultRoles"
         /\ procs'[p].onSeeded ) =>
         /\ registry' = registry
         /\ (procs'[p].pc = "done" => procs'[p].err = "")]_vars

C19_Witness ==
  \E p \in Callers :
    /\ SeedingReturned(p)
    /\ procs[p].onSeeded
    /\ procs[p].err = ""
    /\ Seeded

\* C20: whenever a call of InitializeDefaultRoles has returned without an
\* error and no other call is running, the twelve permissions exist and
\* every canonical role is linked to the whole of its mapping.
C20_SuccessMeansFullySeeded ==
  \A p \in Callers :
    ( /\ SeedingReturned(p)
      /\ procs[p].err = ""
      /\ \A q \in Callers \ {p} : ~InTx(q) ) => FullySeeded

----------------------------------------------------------------------------
(* CreatePermission, and all the registry calls of concurrent requests *)

\* CreatePermission up to the check of the name
CallCreatePermission(p, name, resource, action) ==
  /\ Ready(p)
  /\ LET e == [Enter(p, "CreatePermission")
                 EXCEPT !.permName = name, !.resource = resource,
                        !.action = action]
     IN procs' = [procs EXCEPT ![p] =
                    IF PermissionNameExists(name)
                      THEN Return(e, "permission already exists")
                    ELSE [e EXCEPT !.pc = "create"]]
  /\ UNCHANGED <<registry, session>>

\* Create(permission) without the unique index on permissions.name
InsertPermissionNoIndex(table, row) ==
  [ok |-> TRUE, table |-> table \cup {row}]

\* Create(permission); permissions.name has a unique index
InsertPermission(table, row) ==
  IF \E q \in table : q.name = row.name
    THEN [ok |-> FALSE, table |-> table]
  ELSE [ok |-> TRUE, table |-> table \cup {row}]

\* CreatePermission: Create(permission)
CreatePermissionCreate(p) ==
  /\ procs[p].op = "CreatePermission" /\ procs[p].pc = "create"
  /\ Unlocked(p, "permissions",
              { q \in permissions : q.name = procs[p].permName })
  /\ LET ins == InsertPermission(permissions,
                  [id |-> <<"permission">> \o procs[p].permName,
                   name |-> procs[p].permName,
                   resource |-> procs[p].resource,
                   action |-> procs[p].action])
     IN /\ permissions' = ins.table
        /\ procs' = [procs EXCEPT ![p] =
                       Return(@, IF ins.ok THEN ""
                                 ELSE "failed to create permission")]
  /\ UNCHANGED <<users, roles, userRoles, rolePermissions, session>>

\* names and ids the calls of concurrent requests are made with: the role
\* that is granted is the role that is deleted, and the permission that is
\* linked is the permission that is deleted
NewRoleNames == {"auditor"}
NewPermissions == { <<<<"reports", "read">>, "reports", "read">> }
LinkedIDs == { {}, {PermissionID("observations", "update")} }
GrantedRoles == {RoleID("nurse")}
DoomedRoles == {RoleID("nurse")}
DoomedPermissions == {PermissionID("observations", "update")}

\* two concurrent requests, each running any of the registry calls
NextRegistry ==
  \/ \E p \in Callers, roleID \in GrantedRoles :
       CallAssignRoleToUser(p, "u1", roleID, Grantor(p))
  \/ \E p \in Callers : AssignCheckRole(p)
  \/ \E p \in Callers : AssignCheckExisting(p)
  \/ \E p \in Callers :
       /\ Unlocked(p, "roles", { r \in roles : r.id = procs[p].roleID })
       /\ AssignCreate(p)
  \/ \E p \in Callers, roleID \in GrantedRoles :
       /\ Unlocked(p, "userRoles",
                   { ur \in userRoles :
                       ur.user_id = "u1" /\ ur.role_id = roleID })
       /\ CallRemoveRoleFromUser(p, "u1", roleID)
  \/ \E p \in Callers, name \in NewRoleNames, ids \in LinkedIDs :
       CallCreateRole(p, name, ids)
  \/ \E p \in Callers : CreateRoleCreate(p)
  \/ \E p \in Callers : CreateRoleFind(p)
  \/ \E p \in Callers : CreateRoleAppend(p)
  \/ \E p \in Callers, args \in NewPermissions :
       CallCreatePermission(p, args[1], args[2], args[3])
  \/ \E p \in Callers : CreatePermissionCreate(p)
  \/ \E p \in Callers, roleID \in DoomedRoles : CallDeleteRole(p, roleID)
  \/ \E p \in Callers, fail \in BOOLEAN : DeleteRoleUserRoles(p, fail)
  \/ \E p \in Callers, fail \in BOOLEAN : DeleteRoleRolePermissions(p, fail)
  \/ \E p \in Callers, fail \in BOOLEAN : DeleteRoleRow(p, fail)
  \/ \E p \in Callers, id \in DoomedPermissions :
       CallDeletePermission(p, id)
  \/ \E p \in Callers, fail \in BOOLEAN : DeletePermissionRoles(p, fail)
  \/ \E p \in Callers, fail \in BOOLEAN : DeletePermissionRow(p, fail)
  \/ \E p \in Callers, fail \in BOOLEAN : TxCommit(p, fail)

SpecRegistry == InitServer /\ [][NextRegistry]_vars

\* p's step is the name check or the Create of a call of op
NamingStep(p, op) ==
  /\ procs'[p] # procs[p]
  /\ procs'[p].op = op
  /\ \/ procs[p].pc \in {"idle", "done"}
     \/ procs[p].op = op /\ procs[p].pc = "create"

\* no two roles and no two permissions share a name
UniqueNames ==
  /\ \A r1, r2 \in roles : r1.name = r2.name => r1 = r2
  /\ \A q1, q2 \in permissions : q1.name = q2.name => q1 = q2

C26_NoOrphanRows ==
  /\ \A ur \in userRoles :
       /\ ur.user_id \in DOMAIN users
       /\ \E r \in roles : r.id = ur.role_id
  /\ \A rp \in rolePermissions :
       /\ \E r \in roles : r.id = rp.role_id
       /\ \E q \in permissions : q.id = rp.permission_id

\* an AssignRoleToUser passed its role check, the DeleteRole of the other
\* request committed, and the insert of the assignment was refused
C26_Witness ==
  /\ procs["p1"].op = "AssignRoleToUser" /\ procs["p1"].pc = "done"
  /\ procs["p1"].err = "failed to assign role"
  /\ procs["p2"].op = "DeleteRole" /\ procs["p2"].pc = "done"
  /\ procs["p2"].err = ""
  /\ procs["p2"].roleID = procs["p1"].roleID
  /\ ~RoleExists(procs["p1"].roleID)
  /\ ~AssignmentExists("u1", procs["p1"].roleID)

----------------------------------------------------------------------------
(* Login, and the token it returns presented to the gate *)

\* credentials of login requests: the active identity, the inactive one
\* and an unknown email, each with the secrets of both identities and with
\* a secret of none
LoginBodies ==
  { [email |-> e, password |-> pw, newPassword |-> ""] :
      e \in {"a@x", "b@x", "nobody@x"}, pw \in {"pw1", "pw2", "bad"} }

LoginRoute == Route("POST", "/auth/login", <<H("Login")>>)
ProfileRoute == Protected("GET", "/auth/profile", <<H("GetProfile")>>)

\* logins while time passes and the roles of u1 change, and requests that
\* present the token of the last login
NextLogin ==
  \/ Tick
  \/ \E body \in LoginBodies : NewRequest(LoginRoute, <<>>, body, "i1")
  \/ /\ held # <<>>
     /\ NewRequest(ProfileRoute, BearerPrefix \o <<T(HeldToken)>>, NoBody,
                   "i1")
  \/ Login
  \/ AuthMiddleware
  \/ GetProfile
  \/ \E n \in AdminRoleNames : AssignRole("u1", RoleID(n), "system")
  \/ \E n \in AdminRoleNames : UnassignRole("u1", RoleID(n))

SpecLogin == InitServer /\ [][NextLogin]_vars

\* the step is the Login handler serving the request
LoginStep == Serving("Login") /\ req' # req

\* the users rows with the email of the login request
Named == { u \in DOMAIN users : users[u].email = req[1].body.email }

\* the login request names an active identity and carries its secret
GoodCredentials(u) ==
  /\ u \in Named
  /\ users[u].active
  /\ users[u].password = HashPassword(req[1].body.password)

\* C22: a login with an email of no identity, with the email of an inactive
\* identity, or with a wrong secret for an active identity gets the one
\* response 401 INVALID_CREDENTIALS; no token is issued and no row of users
\* changes.
C22_LoginRejectsUniformly ==
  [][(LoginStep /\ ~\E u \in Named : GoodCredentials(u)) =>
       /\ req'[1].resp = <<[status |-> 401, code |-> "INVALID_CREDENTIALS",
                            error |-> "Invalid credentials"]>>
       /\ req'[1].newToken = Garbage
       /\ held' = held
       /\ users' = users]_vars

\* the inactive identity presented its own secret and was turned away
C22_Witness ==
  /\ req # <<>>
  /\ Done(req[1])
  /\ req[1].route = LoginRoute
  /\ req[1].body.email = "b@x" /\ req[1].body.password = "pw2"
  /\ req[1].resp # <<>>
  /\ req[1].resp[1].status = 401
  /\ users["u2"].lastLogin = -1

\* C23: a login with the secret of an active identity returns a token that
\* validates, names the identity as subject and as user id, carries the
\* names of the roles the identity holds at that moment, each once, and
\* expires one validity window after its issued-at time; AuthMiddleware
\* lets a request with this token through until that expiry.
C23_LoginIssuesToken ==
  [][/\ \A u \in DOMAIN users :
          (LoginStep /\ GoodCredentials(u)) =>
            LET g == req'[1].newToken
                c == g.claims
                now == Now(req[1].inst)
                held_roles == { r.name : r \in PreloadRoles(u) }
            IN /\ req'[1].resp # <<>>
               /\ req'[1].resp[1].status = 200
               /\ ValidateToken(TM, g, now).ok
               /\ c.sub = u /\ c.user_id = u
               /\ RoleSet(c.roles) = held_roles
               /\ Len(c.roles) = Cardinality(held_roles)
               /\ c.iat = NewNumericDate(now)
               /\ c.exp = c.iat + ValidityWindow
               /\ held' # <<>>
               /\ held'[1].token = g
               /\ held'[1].expiresAt = now + ValidityWindow
     /\ ( /\ Serving("AuthMiddleware")
          /\ req' # req
          /\ held # <<>>
          /\ req[1].header = BearerPrefix \o <<T(HeldToken)>>
          /\ Now(req[1].inst) < HeldToken.claims.exp ) =>
            /\ ~req'[1].aborted
            /\ req'[1].keys = <<Identity(HeldToken.claims)>>]_vars

\* a token issued within a second, for an identity with two roles, was
\* presented later and let through to the profile handler
C23_Witness ==
  /\ req # <<>>
  /\ Done(req[1])
  /\ req[1].route = ProfileRoute
  /\ req[1].resp # <<>> /\ req[1].resp[1].status = 200
  /\ held # <<>>
  /\ held[1].now % TicksPerSecond # 0
  /\ clock > held[1].now
  /\ Len(held[1].roles) = 2
  /\ req[1].keys # <<>>
  /\ req[1].keys[1].user_id = "u1"
  /\ req[1].keys[1].user_roles = held[1].roles

----------------------------------------------------------------------------
(* The permission queries of the registry, as the code computes them *)

\* Preload("Roles.Permissions"): a role row with its linked permissions
WithPermissions(r) ==
  [id |-> r.id, name |-> r.name,
   Permissions |-> { q \in permissions :
                       [role_id |-> r.id, permission_id |-> q.id]
                         \in rolePermissions }]

\* RBACService.GetUserRoles
GetUserRoles(userID) ==
  IF userID \notin DOMAIN users
    THEN [err |-> "user not found", roles |-> {}]
  ELSE [err |-> "",
        roles |-> { WithPermissions(r) : r \in PreloadRoles(userID) }]

\* a map assignment keyed by the resource of the permission
PutByResource(permissionMap, permission) ==
  (permission.resource :> permission) @@ permissionMap

\* permissionMap[permission.ID] = permission
Put(permissionMap, permission) ==
  (permission.id :> permission) @@ permissionMap

\* the nested loops of GetUserPermissions over roles and role.Permissions;
\* todo holds the (role, permission) pairs still to visit
RECURSIVE FillPermissionMap(_, _)
FillPermissionMap(permissionMap, todo) ==
  IF todo = {} THEN permissionMap
  ELSE LET x == CHOOSE y \in todo : TRUE
       IN FillPermissionMap(Put(permissionMap, x[2]), todo \ {x})

\* RBACService.GetUserPermissions: the slices it can return, the iteration
\* order of a map not being fixed
GetUserPermissionsSlices(userID) ==
  LET got == GetUserRoles(userID)
      permissionMap ==
        FillPermissionMap(<<>>,
          UNION { { <<r.id, q>> : q \in r.Permissions } : r \in got.roles })
  IN IF got.err # "" THEN { [err |-> got.err, permissions |-> <<>>] }
     ELSE { [err |-> "", permissions |-> o] :
              o \in Orderings({ permissionMap[k] : k \in DOMAIN permissionMap }) }

\* a call of GetUserPermissions
CallGetUserPermissions(userID) ==
  /\ \E out \in GetUserPermissionsSlices(userID) :
       call' = << [op |-> "GetUserPermissions", userID |-> userID,
                   resource |-> "", action |-> "", roleName |-> "",
                   err |-> out.err, permissions |-> out.permissions,
                   has |-> FALSE] >>
  /\ UNCHANGED <<clock, procs, held, prevErr, registry, req, memo>>

\* a call of RBACService.HasPermission
CallHasPermission(userID, resource, action) ==
  /\ \E out \in GetUserPermissionsSlices(userID) :
       call' = << [op |-> "HasPermission", userID |-> userID,
                   resource |-> resource, action |-> action,
                   roleName |-> "", err |-> out.err, permissions |-> <<>>,
                   has |-> \E i \in 1..Len(out.permissions) :
                             /\ out.permissions[i].resource = resource
                             /\ out.permissions[i].action = action] >>
  /\ UNCHANGED <<clock, procs, held, prevErr, registry, req, memo>>

\* a call of RBACService.HasRole
CallHasRole(userID, roleName) ==
  /\ LET got == GetUserRoles(userID)
     IN call' = << [op |-> "HasRole", userID |-> userID, resource |-> "",
                    action |-> "", roleName |-> roleName, err |-> got.err,
                    permissions |-> <<>>,
                    has |-> \E r \in got.roles : r.name = roleName] >>
  /\ UNCHANGED <<clock, procs, held, prevErr, registry, req, memo>>

\* a permission with the resource and action of patients:read under a name
\* and id of its own, and a role linked to both
ViewPermission ==
  [id |-> <<"permission", "patients", "view">>,
   name |-> <<"patients", "view">>, resource |-> "patients",
   action |-> "read"]
AuditorLinks ==
  { [role_id |-> RoleID("auditor"), permission_id |-> q] :
      q \in {ViewPermission.id, PermissionID("patients", "read")} }

\* the seeded registry after CreatePermission of ViewPermission and
\* CreateRole of auditor with two permission ids
InitQuery ==
  /\ clock = 0
  /\ held = <<>>
  /\ call = <<>>
  /\ prevErr = {}
  /\ users = InitUsers
  /\ roles = { RoleRow(n) : n \in DefaultRoleNames \cup {"auditor"} }
  /\ permissions = defaultPermissions \cup {ViewPermission}
  /\ userRoles = {}
  /\ rolePermissions =
       AuditorLinks \cup
       UNION { { [role_id |-> RoleID(n),
                  permission_id |-> PermissionID(q[1], q[2])] :
                 q \in DefaultRolePermissions(n) } : n \in DefaultRoleNames }
  /\ req = <<>>
  /\ memo = <<>>
  /\ procs = [p \in Callers |-> IdleProc]

\* identities, roles and pairs the queries are made with
QueryUsers == {"u1", "u2", "ghost"}
QueryRoleNames == {"nurse", "auditor"}
QueryPairs ==
  { <<"patients", "read">>, <<"patients", "view">>,
    <<"observations", "update">>, <<"users", "read">> }

\* queries in every registry state the assignments and a deleted
\* permission produce
NextQuery ==
  \/ \E u \in {"u1", "u2"}, n \in QueryRoleNames :
       AssignRole(u, RoleID(n), "system")
  \/ \E u \in {"u1", "u2"}, n \in QueryRoleNames :
       UnassignRole(u, RoleID(n))
  \/ DeletePermission(PermissionID("patients", "read"))
  \/ \E u \in QueryUsers : CallGetUserPermissions(u)
  \/ \E u \in QueryUsers, q \in QueryPairs : CallHasPermission(u, q[1], q[2])
  \/ \E u \in QueryUsers, n \in QueryRoleNames \cup {"admin"} :
       CallHasRole(u, n)

SpecQuery == InitQuery /\ [][NextQuery]_vars

\* the roles the identity holds, and the permissions linked to them
HeldRoles(userID) ==
  { r \in roles :
      \E ur \in userRoles : ur.user_id = userID /\ ur.role_id = r.id }
LinkedPermissions(userID) ==
  { q \in permissions :
      \E r \in HeldRoles(userID) :
        [role_id |-> r.id, permission_id |-> q.id] \in rolePermissions }

\* C24: GetUserPermissions returns the permissions linked to the roles the
\* identity holds, each id once; HasPermission says whether one of them has
\* the resource and action; HasRole says whether a held role has the name.
C24_EffectivePermissions ==
  [][(call' # call /\ call'[1].userID \in DOMAIN users) =>
       LET c == call'[1]
       IN /\ c.err = ""
          /\ c.op = "GetUserPermissions" =>
               /\ { c.permissions[i] : i \in 1..Len(c.permissions) }
                    = LinkedPermissions(c.userID)
               /\ \A i, j \in 1..Len(c.permissions) :
                    c.permissions[i].id = c.permissions[j].id => i = j
          /\ c.op = "HasPermission" =>
               (c.has <=> \E q \in LinkedPermissions(c.userID) :
                            q.resource = c.resource /\ q.action = c.action)
          /\ c.op = "HasRole" =>
               (c.has <=> \E r \in HeldRoles(c.userID) :
                            r.name = c.roleName)]_vars

\* the identity holds two roles that share patients:read, and the slice
\* returned lists it once among three permissions
C24_Witness ==
  /\ call # <<>>
  /\ call[1].op = "GetUserPermissions"
  /\ call[1].userID = "u1"
  /\ { r.name : r \in HeldRoles("u1") } = {"nurse", "auditor"}
  /\ PermissionRow("patients", "read") \in LinkedPermissions("u1")
  /\ Len(call[1].permissions) = 3
  /\ Cardinality(LinkedPermissions("u1")) = 3

----------------------------------------------------------------------------
(* OptionalAuth: internal/auth/middleware.go *)

\* the keys OptionalAuth stores in the context
OptionalIdentity(claims) ==
  [user_id |-> claims.user_id, user_email |-> claims.email,
   user_roles |-> claims.roles, claims |-> claims, authenticated |-> TRUE]

\* OptionalAuth that stores the claims of the token whatever ValidateToken
\* says of it
OptionalAuthUnverified ==
  /\ Serving("OptionalAuth")
  /\ LET r == req[1]
         tokenString == TrimPrefix(r.header, BearerPrefix)
     IN req' =
          IF r.header = <<>> THEN <<Proceed(r)>>
          ELSE IF tokenString = r.header THEN <<Proceed(r)>>
          ELSE <<[Proceed(r) EXCEPT
                    !.validated = TRUE,
                    !.keys = <<OptionalIdentity(TokenOf(tokenString).claims)>>]>>
  /\ UNCHANGED <<clock, procs, held, call, prevErr, registry, memo>>

\* the handler returned by OptionalAuth(tokenManager)
OptionalAuth ==
  /\ Serving("OptionalAuth")
  /\ LET r == req[1]
         tokenString == TrimPrefix(r.header, BearerPrefix)
         v == ValidateToken(TM, TokenOf(tokenString), Now(r.inst))
     IN req' =
          IF r.header = <<>> THEN <<Proceed(r)>>
          ELSE IF tokenString = r.header THEN <<Proceed(r)>>
          ELSE IF ~v.ok
            THEN <<[Proceed(r) EXCEPT !.validated = TRUE, !.verr = v.err]>>
          ELSE <<[Proceed(r) EXCEPT !.validated = TRUE,
                                    !.keys = <<OptionalIdentity(v.claims)>>]>>
  /\ UNCHANGED <<clock, procs, held, call, prevErr, registry, memo>>

\* a route that uses OptionalAuth in front of its handler; main registers
\* none
OptionalRoutes ==
  { Route("GET", "/optional/patients",
          <<H("OptionalAuth"), H("GetPatients")>>) }

\* requests with any credential against a route behind OptionalAuth
NextOptional ==
  \/ Tick
  \/ \E i \in Instances, u \in Identities, rs \in RoleLists :
       held = <<>> /\ u.id = "u1" /\ CallGenerateToken(i, u.id, u.email, rs)
  \/ \E route \in OptionalRoutes, h \in Headers, i \in Instances :
       NewRequest(route, h, NoBody, i)
  \/ OptionalAuth
  \/ ResourceHandler

SpecOptional == InitServer /\ [][NextOptional]_vars

\* C25: OptionalAuth hands every request on to the next handler without a
\* response of its own; it attaches the user id, email and roles of the
\* token when the header is of the Bearer form and the token validates, and
\* attaches nothing otherwise.
C25_OptionalAuthNeverRejects ==
  [][(Serving("OptionalAuth") /\ req' # req) =>
       LET r == req[1]
           after == req'[1]
           v == ValidateToken(TM, Presented(r), Now(r.inst))
       IN /\ ~after.aborted
          /\ after.resp = <<>>
          /\ after.pc = r.pc + 1
          /\ IF BearerForm(r.header) /\ v.ok
               THEN /\ after.keys # <<>>
                    /\ after.keys[1].user_id = Presented(r).claims.user_id
                    /\ after.keys[1].user_email = Presented(r).claims.email
                    /\ after.keys[1].user_roles = Presented(r).claims.roles
             ELSE after.keys = <<>>]_vars

\* a request with an expired token, after one with a bad signature, ran its
\* handler with no identity attached
C25_Witness ==
  /\ req # <<>>
  /\ Done(req[1])
  /\ HandlerRan(req[1])
  /\ BearerForm(req[1].header)
  /\ "ErrTokenExpired" \in req[1].verr
  /\ "ErrTokenSignatureInvalid" \in prevErr
  /\ req[1].keys = <<>>
  /\ ~req[1].aborted

----------------------------------------------------------------------------
(* Register: internal/handlers/auth.go *)

\* the id BeforeCreate draws for the user row of a registration
NewUserID(email) == IF email = "c@x" THEN "u3" ELSE "u4"

\* validator.Struct(req) of a RegisterRequest: the password has min=8
TooShort == {"short"}
ValidRegisterRequest(b) == b.email # "" /\ b.password \notin TooShort

\* RBACService.AssignRoleToUser on the connection of s.db: its error, and
\* the table user_roles after it; the rows a transaction has not committed
\* are not in users
AssignRoleToUserOutcome(table, userID, roleID, grantedBy) ==
  LET ins == InsertUserRole(table, [user_id |-> userID, role_id |-> roleID,
                                    granted_by |-> grantedBy])
  IN IF ~UserExists(userID) THEN [err |-> "user not found", table |-> table]
     ELSE IF ~RoleExists(roleID)
       THEN [err |-> "role not found", table |-> table]
     ELSE IF \E ur \in table : ur.user_id = userID /\ ur.role_id = roleID
       THEN [err |-> "user already has this role", table |-> table]
     ELSE IF ~ins.ok THEN [err |-> "failed to assign role", table |-> table]
     ELSE [err |-> "", table |-> ins.table]

\* the loop of Register over defaultRoles from position k on
RECURSIVE RegisterRoles(_, _, _, _)
RegisterRoles(userID, names, k, table) ==
  IF k > Len(names)
    THEN [status |-> 0, code |-> "", error |-> "", table |-> table]
  ELSE IF ~RoleNameExists(names[k])
    THEN [status |-> 400, code |-> "INVALID_ROLE", error |-> "Invalid role",
          table |-> table]
  ELSE LET a == AssignRoleToUserOutcome(table, userID, RoleID(names[k]),
                                        "system")
       IN IF a.err # ""
            THEN [status |-> 500, code |-> "ROLE_ASSIGNMENT_FAILED",
                  error |-> "Failed to assign role", table |-> table]
          ELSE RegisterRoles(userID, names, k + 1, a.table)

\* AuthHandler.Register; fail says whether tx.Commit() fails
Register(fail) ==
  /\ Serving("Register")
  /\ LET r == req[1]
         b == r.body
         now == Now(r.inst)
         id == NewUserID(b.email)
         user == [id |-> id, email |-> b.email,
                  password |-> HashPassword(b.password), active |-> TRUE,
                  lastLogin |-> -1]
         defaultRoles == IF b.roles = <<>> THEN <<"nurse">> ELSE b.roles
         loop == RegisterRoles(id, defaultRoles, 1, userRoles)
     IN IF ~ValidRegisterRequest(b)
          THEN /\ req' = <<Reply(r, 400, "VALIDATION_FAILED",
                                 "Validation failed")>>
               /\ UNCHANGED <<users, userRoles, held, memo>>
        ELSE IF \E u \in DOMAIN users : users[u].email = b.email
          THEN /\ req' = <<Reply(r, 409, "USER_ALREADY_EXISTS",
                                 "User with this email already exists")>>
               /\ UNCHANGED <<users, userRoles, held, memo>>
        ELSE IF loop.code # ""
          THEN /\ req' = <<Reply(r, loop.status, loop.code, loop.error)>>
               /\ userRoles' = loop.table
               /\ UNCHANGED <<users, held, memo>>
        ELSE IF fail
          THEN /\ req' = <<Reply(r, 500, "TRANSACTION_FAILED",
                                 "Failed to complete registration")>>
               /\ userRoles' = loop.table
               /\ UNCHANGED <<users, held, memo>>
        ELSE \E roleNames \in
                 Orderings({ x.name : x \in
                               { y \in roles :
                                   \E ur \in loop.table :
                                     /\ ur.user_id = id
                                     /\ ur.role_id = y.id } }) :
               LET g == GenerateToken(TM, id, b.email, roleNames, now)
               IN /\ users' = users @@ (id :> user)
                  /\ userRoles' = loop.table
                  /\ req' = <<[Reply(r, 201, "", "")
                                 EXCEPT !.newToken = g.token]>>
                  /\ held' = Issued(g, id, b.email, roleNames, now)
                  /\ memo' = <<>>
  /\ UNCHANGED <<clock, procs, call, prevErr, roles, permissions,
                 rolePermissions>>

RegisterRoute == Route("POST", "/auth/register", <<H("Register")>>)

\* registration requests: a new and a used email, a valid and a short
\* password, no role names, existing ones and an unknown one
RegisterBodies ==
  { [email |-> e, password |-> pw, newPassword |-> "", roles |-> rs] :
      e \in {"c@x", "a@x"}, pw \in {"pw345678", "short"},
      rs \in { <<>>, <<"practitioner">>, <<"nurse", "lab-tech">>,
               <<"nurse", "ghost">> } }

\* registrations and logins while time passes; the role nurse may be gone
NextRegister ==
  \/ Tick
  \/ \E body \in RegisterBodies : NewRequest(RegisterRoute, <<>>, body, "i1")
  \/ \E fail \in BOOLEAN : Register(fail)
  \/ \E body \in LoginBodies : NewRequest(LoginRoute, <<>>, body, "i1")
  \/ Login
  \/ DeleteRole(RoleID("nurse"))

SpecRegister == InitServer /\ [][NextRegister]_vars

\* the role names a registration asks for
Requested(b) == IF b.roles = <<>> THEN {"nurse"} ELSE RoleSet(b.roles)

\* C27: a registration with a valid body, an email not in use and role
\* names that all exist is answered 201 unless the commit fails; a
\* registration answered 201 has committed the identity with exactly the
\* requested roles and returns a token that carries them; any other
\* answer leaves users and user_roles as they were.
C27_RegisterCommitsOrLeavesNothing ==
  [][(Serving("Register") /\ req' # req) =>
       LET b == req[1].body
           after == req'[1]
           id == NewUserID(b.email)
       IN /\ ( /\ ValidRegisterRequest(b)
               /\ ~\E u \in DOMAIN users : users[u].email = b.email
               /\ \A n \in Requested(b) : RoleNameExists(n) ) =>
                 \/ after.resp[1].status = 201
                 \/ after.resp[1].code = "TRANSACTION_FAILED"
          /\ IF after.resp[1].status = 201
               THEN /\ id \in DOMAIN users'
                    /\ users'[id].email = b.email
                    /\ { x.name : x \in
                           { y \in roles :
                               \E ur \in userRoles' :
                                 ur.user_id = id /\ ur.role_id = y.id } }
                         = Requested(b)
                    /\ RoleSet(after.newToken.claims.roles) = Requested(b)
                    /\ after.newToken.claims.user_id = id
             ELSE users' = users /\ userRoles' = userRoles]_vars

----------------------------------------------------------------------------
(* The request log of main: gin.LoggerWithConfig *)

\* the health check handler of main, with the database reachable
HealthCheck ==
  /\ Serving("HealthCheck")
  /\ req' = <<Reply(req[1], 200, "", "")>>
  /\ UNCHANGED <<clock, procs, held, call, prevErr, registry, memo>>

\* param.Keys["user_id"].(string): the assertion panics when the context
\* holds no user_id, the value then being a nil interface
UserIDAsString(keys) ==
  IF keys = <<>> THEN [panic |-> TRUE, user_id |-> ""]
  ELSE [panic |-> FALSE, user_id |-> keys[1].user_id]

\* the Formatter of the logger, which gin calls when the handlers of the
\* request have returned; gin.Recovery is registered after the logger and
\* does not cover it
LogFormatter ==
  /\ req # <<>>
  /\ Done(req[1])
  /\ ~req[1].logged
  /\ req' = <<[req[1] EXCEPT !.logged = TRUE,
                             !.panic = UserIDAsString(req[1].keys).panic]>>
  /\ UNCHANGED <<clock, procs, held, call, prevErr, registry, memo>>

HealthRoute == Route("GET", "/health", <<H("HealthCheck")>>)

\* routes of main the logged requests are made to
LoggedRoutes ==
  { HealthRoute, LoginRoute, RegisterRoute, ProfileRoute,
    Protected("DELETE", "/patients/:id",
      <<RequireRoleOf(<<"admin">>), H("DeletePatient")>>) }

\* the bodies a route is requested with
LoggedBodies(route) ==
  IF route = LoginRoute
    THEN { b \in LoginBodies : b.password = "pw1" }
  ELSE IF route = RegisterRoute
    THEN { b \in RegisterBodies : b.roles = <<>> /\ b.password # "short" }
  ELSE {NoBody}

\* every request runs its chain and is then logged
NextLog ==
  \/ \E route \in LoggedRoutes :
       \E h \in { <<>>, BearerPrefix \o <<T(HeldToken)>> },
          body \in LoggedBodies(route) :
         /\ req # <<>> => req[1].logged
         /\ NewRequest(route, h, body, "i1")
  \/ HealthCheck
  \/ Login
  \/ \E fail \in BOOLEAN : Register(fail)
  \/ AuthMiddleware
  \/ RequireRole
  \/ ResourceHandler
  \/ GetProfile
  \/ LogFormatter
  \/ \E n \in AdminRoleNames : AssignRole("u1", RoleID(n), "system")

SpecLog == InitServer /\ [][NextLog]_vars

\* C28: no request makes the request log of main panic, whether a user_id
\* was attached to its context or not.
C28_LoggingNeverPanics ==
  req # <<>> => ~req[1].panic

----------------------------------------------------------------------------
(* The two policy tables: the role lists of the routes and checkPermission *)

\* tokens are issued for one default role each
SingleRoleLists == { <<n>> : n \in DefaultRoleNames }

\* requests of the holder of one default role to every guarded patient and
\* observation route
NextPolicy ==
  \/ \E rs \in SingleRoleLists :
       /\ req # <<>> => Done(req[1])
       /\ CallGenerateToken("i1", "u1", "a@x", rs)
  \/ \E route \in PatientRoutes \cup ObservationRoutes :
       /\ held # <<>>
       /\ NewRequest(route, BearerPrefix \o <<T(HeldToken)>>, NoBody, "i1")
  \/ AuthMiddleware
  \/ RequireRole
  \/ ResourceHandler

SpecPolicy == InitServer /\ [][NextPolicy]_vars

\* the resource and the action a guarded route stands for
RouteResource(route) ==
  IF route \in PatientRoutes THEN "patients" ELSE "observations"
RouteAction(route) ==
  CASE route.method = "POST" -> "create"
    [] route.method = "GET" -> "read"
    [] route.method = "PUT" -> "update"
    [] route.method = "DELETE" -> "delete"

\* C29: on every guarded patient and observation route, the role guard
\* admits the holder of a default role exactly when checkPermission grants
\* that role the resource and action of the route.
C29_RouteGuardsAgreeWithMatrix ==
  (req # <<>> /\ Ran(req[1], "RequireRole")) =>
    LET r == req[1]
    IN ~r.aborted <=>
         checkPermission(r.keys[1].user_roles, RouteResource(r.route),
                         RouteAction(r.route))

----------------------------------------------------------------------------
(* The seeded registry and the table of checkPermission *)

\* one process instance seeds the empty database and runs to the end
NextSeedOnce ==
  \/ CallInitializeDefaultRoles("p1")
  \/ SeedPermissionCheck("p1")
  \/ SeedPermissionCreate("p1")
  \/ \E roleName \in DefaultRoleNames : SeedRoleCheck("p1", roleName)
  \/ SeedRoleCreate("p1")
  \/ SeedRoleFind("p1")
  \/ SeedRoleAppend("p1")

SpecSeedOnce == InitSeed /\ [][NextSeedOnce]_vars

\* the role names and the pairs the two tables are compared on
ComparedRoleNames == DefaultRoleNames \cup {"ghost"}
ComparedPairs ==
  {"patients", "observations", "users", "reports"}
    \X {"create", "read", "update", "delete", "export"}

\* some role of the set is linked in the registry to a permission with the
\* resource and the action
LinkedInRegistry(names, resource, action) ==
  \E r \in roles, q \in permissions :
    /\ r.name \in names
    /\ q.resource = resource /\ q.action = action
    /\ [role_id |-> r.id, permission_id |-> q.id] \in rolePermissions

\* C30: in the registry InitializeDefaultRoles produces on an empty
\* registry, checkPermission grants a set of role names a (resource,
\* action) pair exactly when some role of the set is linked to a permission
\* with that pair; a name in neither table is granted nothing by either.
C30_MatrixAgreesWithSeededRegistry ==
  (SeedingReturned("p1") /\ procs["p1"].err = "") =>
    \A names \in SUBSET ComparedRoleNames :
      \A tokenRoles \in Orderings(names) :
        \A pair \in ComparedPairs :
          /\ checkPermission(tokenRoles, pair[1], pair[2])
               <=> LinkedInRegistry(names, pair[1], pair[2])
          /\ names = {"ghost"} =>
               /\ ~checkPermission(tokenRoles, pair[1], pair[2])
               /\ ~LinkedInRegistry(names, pair[1], pair[2])

\* the seeding has returned and lab-tech may update observations by both
\* tables, and delete them by neither
C30_Witness ==
  /\ SeedingReturned("p1") /\ procs["p1"].err = ""
  /\ checkPermission(<<"lab-tech">>, "observations", "update")
  /\ LinkedInRegistry({"lab-tech"}, "observations", "update")
  /\ ~checkPermission(<<"lab-tech", "nurse">>, "observations", "delete")
  /\ ~LinkedInRegistry({"lab-tech", "nurse"}, "observations", "delete")

====
